---- MODULE Spec2Model ----
(***************************************************************************)
(* Vector11 ingestion pipeline: the seed script (scripts/loadDb.ts), the   *)
(* incremental cron route (app/api/cron/update-db/route.ts) and the store  *)
(* they share, as a state machine.                                         *)
(*                                                                         *)
(* External collaborators are modelled by their contract:                  *)
(*   - the text splitter is a deterministic function of the text it is     *)
(*     given (SplitParents, SplitChildren);                                *)
(*   - md5 is collision-free (Md5 keeps its input);                        *)
(*   - the embedding service answers one vector per input, in order, or    *)
(*     fails;                                                              *)
(*   - the store applies the documents of an unordered insertMany one by   *)
(*     one, each atomically, rejecting a document whose _id is present;    *)
(*     two requests in flight interleave document by document.             *)
(***************************************************************************)
EXTENDS Integers, Sequences, FiniteSets, TLC

VARIABLES
  retryIn,    \* withRetry under test: the wrapped operation and maxAttempts
  retryOut,   \* what that call of withRetry did
  scn,        \* the deployment: seed list, MAX_SCRAPE_URLS, which runs exist
  store,      \* the collection: a set of documents
  inflight,   \* per run: the insertMany request the run is awaiting
  faults,     \* number of injected failures of external calls so far
  seed,       \* per seed run: the locals of loadSampleData
  cron,       \* per cron run: the locals of GET
  coll,       \* the collection as the database holds it: whether it exists, its dimension
  chatIn,     \* chat retrieval under test: what the child search returned, the store
  chatOut,    \* what the retrieval of the chat route assembled
  filterIn,   \* isLowValueContent under test: the text it is given
  filterOut,  \* what that call of isLowValueContent returned
  requestBuckets, \* chat route: per client key, the timestamps of its recent requests
  clock,      \* chat route: the last reading of Date.now()
  served      \* chat route: the requests answered so far, with the limiter's verdict

vars ==
  <<retryIn, retryOut, chatIn, chatOut, filterIn, filterOut,
    requestBuckets, clock, served,
    scn, coll, store, inflight, faults, seed, cron>>

pipelineVars == <<scn, coll, store, inflight, faults, seed, cron>>

retryVars == <<retryIn, retryOut>>

chatVars == <<chatIn, chatOut>>

filterVars == <<filterIn, filterOut>>

rateVars == <<requestBuckets, clock, served>>

-----------------------------------------------------------------------------
(* Bounds of the model *)

\* largest maxAttempts tried on withRetry
MaxAttempts == 4

\* child chunks one search returns (the route asks for at most 10)
MaxChildren == 3

\* largest number of injected failures of external calls in one behaviour
MaxFaults == 2

\* requests sent to the chat route in one behaviour
MaxRequests == 5

-----------------------------------------------------------------------------
(* Program constants *)

RETRY_ATTEMPTS == 3

RETRY_BASE_DELAY_MS == 1000

EMBED_BATCH == 100

INSERT_BATCH == 20

\* Number(process.env.EMBEDDING_DIMENSIONS) || 1000
DEFAULT_VECTOR_DIMENSIONS == 1000

-----------------------------------------------------------------------------
(* Small helpers *)

Min(a, b) == IF a < b THEN a ELSE b

Range(s) == {s[k] : k \in 1..Len(s)}

\* Array.prototype.slice(from, to) with 0-based offsets
Slice(s, from, to) == SubSeq(s, from + 1, Min(to, Len(s)))

-----------------------------------------------------------------------------
(* withRetry *)

\* An operation is the sequence of outcomes of its successive invocations:
\* [ok |-> TRUE, val |-> result] or [ok |-> FALSE, val |-> error].
RetryOutcomes ==
  {[ok |-> TRUE, val |-> "r1"], [ok |-> TRUE, val |-> "r2"],
   [ok |-> FALSE, val |-> "e1"], [ok |-> FALSE, val |-> "e2"]}

\* a plausible slip: the exponent off by one
DelayMsDoubled(attempt) == RETRY_BASE_DELAY_MS * 2 ^ attempt

\* const delayMs = RETRY_BASE_DELAY_MS * 2 ** (attempt - 1)
DelayMs(attempt) == RETRY_BASE_DELAY_MS * 2 ^ (attempt - 1)

\* a plausible slip: the result is kept instead of returned, and the loop runs on
RetryLoopKeepsGoing(fn, attempts, attempt, sleeps, lastError) ==
  [threw |-> ~fn[attempts].ok, val |-> fn[attempts].val, calls |-> attempts,
   sleeps |-> [k \in 1..(attempts - 1) |-> DelayMs(k)]]

RECURSIVE RetryLoop(_, _, _, _, _)
\* the for loop of withRetry, entered at `attempt`
RetryLoop(fn, attempts, attempt, sleeps, lastError) ==
  IF attempt > attempts
  THEN [threw |-> TRUE, val |-> lastError, calls |-> attempt - 1, sleeps |-> sleeps]
  ELSE LET r == fn[attempt] IN
       IF r.ok
       THEN [threw |-> FALSE, val |-> r.val, calls |-> attempt, sleeps |-> sleeps]
       ELSE IF attempt = attempts
            THEN [threw |-> TRUE, val |-> r.val, calls |-> attempt, sleeps |-> sleeps]
            ELSE RetryLoop(fn, attempts, attempt + 1,
                           Append(sleeps, DelayMs(attempt)),
                           r.val)

\* a plausible slip: the loop bound off by one (attempt < attempts)
WithRetryOffByOne(fn, attempts) == RetryLoop(fn, attempts - 1, 1, <<>>, "undefined")

WithRetry(fn, attempts) == RetryLoop(fn, attempts, 1, <<>>, "undefined")

RetryPending == [pc |-> "pending"]

InitRetry ==
  /\ retryIn \in [fn : [1..MaxAttempts -> RetryOutcomes], attempts : 1..MaxAttempts]
  /\ retryOut = RetryPending

RetryCall ==
  /\ retryOut = RetryPending
  /\ retryOut' = [pc |-> "returned", res |-> WithRetry(retryIn.fn, retryIn.attempts)]
  /\ UNCHANGED retryIn

-----------------------------------------------------------------------------
(* Texts and the quality filter *)

\* A text is known by what the pipeline reads of it: its trimmed length, and
\* of its normalized form (whitespace collapsed, lower case) the length, whether
\* it holds a digit and a statistics keyword, how many boilerplate phrases it
\* matches and how many distinct words it has. id tells two texts apart.
Txt(name, k, len) ==
  [id |-> <<name, k>>, len |-> len, norm |-> len, digit |-> FALSE, stats |-> FALSE,
   boiler |-> 0, uniq |-> 40]

StatsTxt(name, k, len) == [Txt(name, k, len) EXCEPT !.digit = TRUE, !.stats = TRUE]

JunkTxt(name, k, len) == [Txt(name, k, len) EXCEPT !.boiler = 3]

\* scrapPage hands back "" when the scrape fails or the page is an interstitial
EmptyTxt == Txt("", 0, 0)

\* a plausible slip: no leniency for short statistics
isLowValueContentProse(text) ==
  IF text.norm = 0 THEN TRUE
  ELSE IF text.norm < 200 THEN TRUE
  ELSE IF text.norm >= 800 THEN FALSE
  ELSE IF text.boiler >= 3 THEN TRUE
  ELSE IF text.uniq < 30 THEN TRUE
  ELSE FALSE

isLowValueContent(text) ==
  IF text.norm = 0 THEN TRUE
  ELSE IF text.digit /\ text.stats /\ text.norm >= 100 THEN FALSE
  ELSE IF text.norm < 200 THEN TRUE
  ELSE IF text.norm >= 800 THEN FALSE
  ELSE IF text.boiler >= 3 THEN TRUE
  ELSE IF text.uniq < 30 THEN TRUE
  ELSE FALSE

\* lengths around every threshold of the filter
FilterLengths == {0, 1, 99, 100, 119, 120, 199, 200, 500, 799, 800, 801}

\* texts by what the filter can tell apart: the length after whitespace is
\* collapsed and trimmed, the whitespace that removes (pad), a digit, a
\* statistics keyword, boilerplate phrases matched, distinct words. A digit,
\* a keyword, a phrase and a word each take characters.
FilterTexts ==
  {t \in [id : {<<"t", 0>>}, len : {n + pad : n \in FilterLengths, pad \in {0, 1}},
          norm : FilterLengths, digit : BOOLEAN, stats : BOOLEAN,
          boiler : {0, 2, 3}, uniq : {0, 1, 29, 30}] :
     /\ t.len - t.norm \in {0, 1}
     /\ t.norm = 0 <=> t.uniq = 0
     /\ 2 * t.uniq <= t.norm + 1
     /\ t.digit => t.norm >= 1
     /\ t.stats => t.norm >= 99
     /\ t.boiler > 0 => t.norm >= 99}

FilterPending == [pc |-> "pending"]

NoFilter == filterIn = EmptyTxt /\ filterOut = [pc |-> "unused"]

InitFilter == filterIn \in FilterTexts /\ filterOut = FilterPending

FilterCall ==
  /\ filterOut = FilterPending
  /\ filterOut' = [pc |-> "returned", res |-> isLowValueContent(filterIn)]
  /\ UNCHANGED filterIn

-----------------------------------------------------------------------------
(* The world: what the network and the splitter give back *)

\* the page behind each URL, as scrapPage cleans it
PageText(url) ==
  CASE url = "page1" -> Txt("page1", 0, 1400)
    [] url = "page2" -> Txt("page2", 0, 1400)
    [] url = "art1"  -> Txt("art1", 0, 900)
    [] url = "art2"  -> Txt("art2", 0, 900)
    [] url = "stub"  -> Txt("stub", 0, 900)
    [] url = "thin"  -> Txt("thin", 0, 150)
    [] url = "junk"  -> JunkTxt("junk", 0, 500)
    [] url = "big"   -> Txt("big", 0, 20000)
    [] url = "table" -> StatsTxt("table", 0, 150)
    [] url = "brief" -> Txt("brief", 0, 900)
    [] OTHER         -> EmptyTxt

\* RecursiveCharacterTextSplitter.splitText with the parent sizes
SplitParents(text) ==
  CASE text.id[1] = "page1" -> <<Txt("PA", 0, 700), Txt("PB", 0, 600)>>
    [] text.id[1] = "page2" -> <<Txt("PA", 0, 700), Txt("PC", 0, 600), Txt("PS", 0, 100)>>
    [] text.id[1] = "art1"  -> <<Txt("PD", 0, 700)>>
    [] text.id[1] = "art2"  -> <<Txt("PE", 0, 700)>>
    [] text.id[1] = "stub"  -> <<Txt("PS", 0, 100), JunkTxt("PJ", 0, 500)>>
    [] text.id[1] = "brief" -> <<Txt("PF", 0, 700)>>
    [] text.id[1] = "big"   -> <<Txt("PA", 0, 700)>> \o [k \in 1..20 |-> Txt("BP", k, 700)]
    [] OTHER                -> <<text>>

\* RecursiveCharacterTextSplitter.splitText with the child sizes
SplitChildren(text) ==
  CASE text.id[1] = "PA" -> <<Txt("a1", 0, 300), Txt("a2", 0, 300)>>
    [] text.id[1] = "PB" -> <<Txt("b1", 0, 300), Txt("bs", 0, 60)>>
    [] text.id[1] = "PC" -> <<Txt("a1", 0, 300), JunkTxt("cj", 0, 300)>>
    [] text.id[1] = "PD" -> <<StatsTxt("d1", 0, 150)>>
    [] text.id[1] = "PE" -> <<Txt("e1", 0, 150), Txt("e2", 0, 70)>>
    [] text.id[1] = "PF" -> <<Txt("f1", 0, 70), Txt("f2", 0, 60)>>
    [] text.id = <<"BP", 1>> -> [k \in 1..80 |-> Txt("bc", k, 300)]
    [] OTHER             -> <<Txt("c", text.id[2], 300)>>

\* url.toLowerCase().includes(BBC_TEAM_PATH), over the URLs of the world
isBbcTeamPage(url) == url \in {"hub"}

\* BLOCK_PATTERNS.some(p => h.includes(p)), over the URLs of the world
isBlocked(href) == href \in {"video"}

isLikelyHtml(urlStr) == urlStr \notin {"data.json"}

\* what extractRssLinks(url) may return when the fetch and the parse succeed (the
\* feed's links, already filtered, de-duplicated and capped) is part of the
\* scenario: scn.web[url] is the set of link lists the feed may show
RssLinks(url) == scn.web[url]

\* lower.includes("bbc.com/sport/football/"), over the URLs of the world
InBbcFootball(url) == url \in {"hub", "page2", "video"}

\* lower.includes("/teams/"): BBC_TEAM_PATH holds "/teams/", so every hub page
\* is among these
InTeams(url) == url \in {"hub"}

\* the first filter of filterBbcTeamLinks; the keyword filter after it passes
\* every URL that holds "/sport/football/"
KeepTeamLink(url) ==
  /\ InBbcFootball(url)
  /\ ~InTeams(url)
  /\ ~isBlocked(url)
  /\ isLikelyHtml(url)

RECURSIVE Unique(_)
\* Array.from(new Set(list)): first occurrences, in order
Unique(list) ==
  IF list = <<>> THEN <<>>
  ELSE LET front == Unique(SubSeq(list, 1, Len(list) - 1))
           last == list[Len(list)]
       IN IF \E k \in 1..Len(front) : front[k] = last THEN front
          ELSE Append(front, last)

\* a plausible slip: the links of the hub are queued as they are found
filterBbcTeamLinksUnfiltered(baseUrl, links) == SubSeq(Unique(links), 1, Min(30, Len(Unique(links))))

filterBbcTeamLinks(baseUrl, links) ==
  LET filtered == Unique(SelectSeq(links, KeepTeamLink))
  IN SubSeq(filtered, 1, Min(30, Len(filtered)))

\* what filterBbcTeamLinks(url, extractHtmlLinks(url)) may come to: scn.web[url]
\* is the set of anchor lists the page may show; extractHtmlLinks answers []
\* when the page cannot be loaded
HubLinks(url) == {filterBbcTeamLinks(url, links) : links \in scn.web[url]} \cup {<<>>}

Item(url, type, delay) ==
  [url |-> url, type |-> type, source |-> <<"src", url>>, delay |-> delay]

-----------------------------------------------------------------------------
(* Content-addressed identity and the documents *)

\* createHash("md5").update(x).digest("hex"), taken as collision-free
Md5(x) == <<"md5", x>>

ParentId(parentChunk) == Md5(<<parentChunk>>)

\* a plausible slip: the child _id hashes the text alone
ChildIdOfText(parentId, chunk) == Md5(<<chunk>>)

ChildId(parentId, chunk) == Md5(<<parentId, "|", chunk>>)

ParentRecord(parentChunk, source, url, scrapedAt) ==
  [_id |-> ParentId(parentChunk), content |-> parentChunk, source |-> source,
   url |-> url, scrapedAt |-> scrapedAt, type |-> "parent"]

\* a plausible slip: the child _id also hashes the scrape time
ChildRecordStamped(chunk, parentId, source, url, scrapedAt, vector) ==
  [_id |-> Md5(<<parentId, "|", chunk, scrapedAt>>), content |-> chunk,
   parentId |-> parentId, source |-> source, url |-> url, scrapedAt |-> scrapedAt,
   type |-> "child", vector |-> vector]

ChildRecord(chunk, parentId, source, url, scrapedAt, vector) ==
  [_id |-> ChildId(parentId, chunk), content |-> chunk, parentId |-> parentId,
   source |-> source, url |-> url, scrapedAt |-> scrapedAt, type |-> "child",
   vector |-> vector]

\* `[Source: ${source}]\n${c}`
Enrich(source, c) == <<"[Source: ", source, "]\n", c>>

\* the embedding service: one vector per input, in input order
Embedding(input) == <<"vec", input>>

EmbeddingsCreate(input) ==
  [data |-> [k \in 1..Len(input) |-> Embedding(input[k])], total_tokens |-> Len(input)]

RECURSIVE ChildrenOf(_, _, _)
\* the loop over filteredParents: childTexts and childMeta, built in step;
\* filteredChildren[k] are the child chunks kept for the k-th parent
ChildrenOf(filteredParents, filteredChildren, k) ==
  IF k > Len(filteredParents) THEN <<>>
  ELSE LET parentChunk == filteredParents[k]
       IN [j \in 1..Len(filteredChildren[k]) |->
             [text |-> filteredChildren[k][j], parentId |-> ParentId(parentChunk)]]
          \o ChildrenOf(filteredParents, filteredChildren, k + 1)

-----------------------------------------------------------------------------
(* The deployment and the runs *)

SeedRuns == {"s1", "s2"}

CronRuns == {"c1", "c2"}

Runs == SeedRuns \cup CronRuns

\* the order in which runs are launched when they do not overlap
RunOrder == <<"s1", "s2", "c1", "c2">>

\* resolveMaxUrls: <<>> is undefined (no cap), <<n>> a cap of n
NoCap == <<>>

\* the database holds no collection of that name
NoCollection == [exists |-> FALSE, dimension |-> 0]

\* A scenario: the seed list, MAX_SCRAPE_URLS, what the feeds show, whether
\* CRON_SECRET is set, which runs are launched and whether they may overlap;
\* by default the database is empty and ALLOW_COLLECTION_RECREATE is unset
Scenario(name, footballData, maxUrls, feed1, feed2, hub, secret, runs, overlap) ==
  [name |-> name, footballData |-> footballData, maxUrls |-> maxUrls,
   web |-> [feed1 |-> feed1, feed2 |-> feed2, hub |-> hub], CRON_SECRET |-> secret,
   runs |-> runs, overlap |-> overlap,
   collection |-> NoCollection, stored |-> {}, ALLOW_COLLECTION_RECREATE |-> ""]

-----------------------------------------------------------------------------
(* The store *)

NoRequest == [docs |-> <<>>, next |-> 1, insertedCount |-> 0, dup |-> FALSE]

Request(docs) == [NoRequest EXCEPT !.docs = docs]

RequestDone(req) == req.next > Len(req.docs)

Awaiting(r) ==
  IF r \in SeedRuns THEN seed[r].pc \in {"parentsWait", "childrenWait"}
  ELSE cron[r].pc \in {"parentsWait", "childrenWait"}

\* The store applies the next document of a request in flight: it is inserted
\* unless a document with its _id is present (unordered insert: the rest of the
\* batch is still applied).
StoreInsertOne(r) ==
  /\ Awaiting(r)
  /\ ~RequestDone(inflight[r])
  /\ LET req == inflight[r]
         doc == req.docs[req.next]
         exists == \E d \in store : d._id = doc._id
     IN /\ store' = IF exists THEN store ELSE store \cup {doc}
        /\ inflight' = [inflight EXCEPT ![r] =
             [req EXCEPT !.next = @ + 1,
                         !.insertedCount = IF exists THEN @ ELSE @ + 1,
                         !.dup = @ \/ exists]]
  /\ UNCHANGED <<scn, coll, faults, seed, cron, retryVars, chatVars, filterVars, rateVars>>

\* error.message.includes(phrase), over the messages of the world
MsgIncludes(message, phrase) ==
  <<message, phrase>> \in
    {<<"Document already exists with the given _id", "already exists">>,
     <<"E11000 duplicate key error", "duplicate">>}

\* How insertMany may end for the caller: once every document was tried, with
\* its result, or with the duplicate error carrying the partial result; at any
\* point, with an error of another kind (the documents applied so far stay).
InsertOutcomes(req) ==
  (IF ~RequestDone(req) THEN {}
   ELSE IF req.dup
        THEN {[ok |-> FALSE, fault |-> FALSE,
               message |-> "Document already exists with the given _id",
               partialResult |-> [insertedCount |-> req.insertedCount]]}
        ELSE {[ok |-> TRUE, fault |-> FALSE, insertedCount |-> req.insertedCount]})
  \cup
  (IF faults < MaxFaults
   THEN {[ok |-> FALSE, fault |-> TRUE, message |-> "Request timed out"]}
   ELSE {})

\* a plausible slip: the partial result of a duplicate error is dropped
OnInsertDropPartial(recordsAdded, outcome) ==
  IF outcome.ok
  THEN [threw |-> FALSE, recordsAdded |-> recordsAdded + outcome.insertedCount]
  ELSE IF MsgIncludes(outcome.message, "already exists")
            \/ MsgIncludes(outcome.message, "duplicate")
       THEN [threw |-> FALSE, recordsAdded |-> recordsAdded]
       ELSE [threw |-> TRUE, recordsAdded |-> recordsAdded]

\* a plausible slip: every insert error is swallowed
OnInsertSwallowAll(recordsAdded, outcome) ==
  IF outcome.ok
  THEN [threw |-> FALSE, recordsAdded |-> recordsAdded + outcome.insertedCount]
  ELSE [threw |-> FALSE, recordsAdded |-> recordsAdded]

\* a plausible slip: the duplicate error is rethrown like any other
OnInsertDupFatal(recordsAdded, outcome) ==
  IF outcome.ok
  THEN [threw |-> FALSE, recordsAdded |-> recordsAdded + outcome.insertedCount]
  ELSE [threw |-> TRUE, recordsAdded |-> recordsAdded]

\* the try/catch around collection.insertMany in loadSampleData
OnInsert(recordsAdded, outcome) ==
  IF outcome.ok
  THEN [threw |-> FALSE, recordsAdded |-> recordsAdded + outcome.insertedCount]
  ELSE IF MsgIncludes(outcome.message, "already exists")
            \/ MsgIncludes(outcome.message, "duplicate")
       THEN [threw |-> FALSE,
             recordsAdded |-> recordsAdded + outcome.partialResult.insertedCount]
       ELSE [threw |-> TRUE, recordsAdded |-> recordsAdded]

-----------------------------------------------------------------------------
(* loadSampleData *)

\* seed has not printed "Seed complete"
NoSummary == [printed |-> FALSE]

SeedIdle ==
  [pc |-> "init", queue |-> <<>>, i |-> 0, seenUrls |-> {},
   processedUrls |-> 0, processedUrlList |-> <<>>, recordsAdded |-> 0,
   totalEmbeddingTokens |-> 0, skippedUrls |-> 0, failedUrls |-> 0,
   parentDocs |-> <<>>, childTexts |-> <<>>, childMeta |-> <<>>,
   allVectors |-> <<>>, scrapedAt |-> <<>>, b |-> 0, log |-> <<>>,
   summary |-> NoSummary, vectorDimensions |-> 0]

Finished(r) ==
  \/ r \notin scn.runs
  \/ r \in SeedRuns /\ seed[r].pc \in {"returned", "threw", "aborted"}
  \/ r \in CronRuns /\ cron[r].pc \in {"responded"}

\* a run is launched once the runs before it are over, unless runs overlap
MayStart(r) ==
  /\ r \in scn.runs
  /\ scn.overlap \/ \A k \in 1..Len(RunOrder) :
       (\E j \in (k + 1)..Len(RunOrder) : RunOrder[j] = r) => Finished(RunOrder[k])

\* the queue entry at hand
Entry(run) == run.queue[run.i + 1]

\* history of the run: what was done for which queue entry, in order
Logged(run, at, url, op, arg, ev) ==
  [run EXCEPT !.log = Append(@, [at |-> at, url |-> url, op |-> op, arg |-> arg, ev |-> ev])]

\* await sleep(delay)
Sleep(run, delay) == Logged(run, run.i, Entry(run).url, "sleep", delay, "ok")

\* continue: on to the next queue entry; the locals of this one are gone
Continue(run) ==
  [run EXCEPT !.i = @ + 1, !.pc = "loop", !.parentDocs = <<>>, !.childTexts = <<>>,
              !.childMeta = <<>>, !.allVectors = <<>>, !.scrapedAt = <<>>, !.b = 0]

RECURSIVE PushLinksFront(_, _, _, _)
\* a plausible slip: the discovered entries are put at the head (unshift)
PushLinksFront(run, links, source, k) ==
  IF k > Len(links) THEN run
  ELSE IF links[k] \in run.seenUrls THEN PushLinksFront(run, links, source, k + 1)
  ELSE PushLinksFront(
         [run EXCEPT !.seenUrls = @ \cup {links[k]},
                     !.queue = <<[url |-> links[k], type |-> "html",
                                  source |-> source \o <<"Article">>,
                                  delay |-> 2]>> \o @],
         links, source, k + 1)

RECURSIVE PushLinksUnseen(_, _, _, _)
\* a plausible slip: the seen-set is kept but not consulted
PushLinksUnseen(run, links, source, k) ==
  IF k > Len(links) THEN run
  ELSE PushLinksUnseen(
         [run EXCEPT !.seenUrls = @ \cup {links[k]},
                     !.queue = Append(@, [url |-> links[k], type |-> "html",
                                          source |-> source \o <<"Article">>,
                                          delay |-> 2])],
         links, source, k + 1)

RECURSIVE PushLinks(_, _, _, _)
\* for (const link of links) { if (seenUrls.has(link)) continue; ... queue.push }
PushLinks(run, links, source, k) ==
  IF k > Len(links) THEN run
  ELSE IF links[k] \in run.seenUrls THEN PushLinks(run, links, source, k + 1)
  ELSE PushLinks(
         [run EXCEPT !.seenUrls = @ \cup {links[k]},
                     !.queue = Append(@, [url |-> links[k], type |-> "html",
                                          source |-> source \o <<"Article">>,
                                          delay |-> 2])],
         links, source, k + 1)

\* a plausible slip: an expanded feed or hub is counted as a processed URL
ExpandedCounted(run, links) ==
  Continue(Sleep(PushLinks([run EXCEPT !.processedUrls = @ + 1], links,
                           Entry(run).source, 1),
                 Entry(run).delay))

\* the links of a feed or hub are queued; await sleep(delay); continue
Expanded(run, links) ==
  Continue(Sleep(PushLinks(run, links, Entry(run).source, 1), Entry(run).delay))

\* an operation that fails `k` times and then succeeds with `val`
FailsThenOk(k, val) ==
  [j \in 1..RETRY_ATTEMPTS |->
     IF j <= k THEN [ok |-> FALSE, val |-> <<"error", j>>] ELSE [ok |-> TRUE, val |-> val]]

\* how often a retried call fails before it succeeds: never, on every attempt
\* but the last, or on every attempt; never once the budget of faults is spent
FailureCounts ==
  IF faults < MaxFaults THEN {0, RETRY_ATTEMPTS - 1, RETRY_ATTEMPTS} ELSE {0}

Fault(k) == IF k > 0 THEN 1 ELSE 0

CapReached(run) == scn.maxUrls # NoCap /\ run.processedUrls >= scn.maxUrls[1]

\* isEnabled, on values already trimmed and in lower case; "" is undefined
isEnabled(value) == value \in {"1", "true", "yes", "y", "on"}

\* a collection of the name, with the vector dimension it was created with
\* (0: it has none)
Collection(dimension) == [exists |-> TRUE, dimension |-> dimension]

\* what createCollection did: whether it threw, the collection it leaves,
\* whether it dropped the old one, whether a database call failed
SetupResult(threw, c, dropped, failed, vectorDimensions) ==
  [threw |-> threw, coll |-> c, dropped |-> dropped, failed |-> failed,
   vectorDimensions |-> vectorDimensions]

\* The body of createCollection. `fails` names the database call that fails
\* with an error other than "Collection already exists": "create" the first
\* db.createCollection, "recreate" the one after the drop, "none" no call.
\* A collection that exists with the requested dimension is returned as it is,
\* whether the database answers the creation or reports that it exists.
CollectionSetup(c, recreate, fails) ==
  IF fails = "create" THEN SetupResult(TRUE, c, FALSE, TRUE, 0)
  ELSE IF ~c.exists
  THEN SetupResult(FALSE, Collection(DEFAULT_VECTOR_DIMENSIONS), FALSE, FALSE,
                   DEFAULT_VECTOR_DIMENSIONS)
  ELSE IF c.dimension = 0 THEN SetupResult(TRUE, c, FALSE, FALSE, 0)
  ELSE IF c.dimension = DEFAULT_VECTOR_DIMENSIONS
  THEN SetupResult(FALSE, c, FALSE, FALSE, c.dimension)
  ELSE IF ~recreate THEN SetupResult(TRUE, c, FALSE, FALSE, 0)
  ELSE IF fails = "recreate" THEN SetupResult(TRUE, NoCollection, TRUE, TRUE, 0)
  ELSE SetupResult(FALSE, Collection(DEFAULT_VECTOR_DIMENSIONS), TRUE, FALSE,
                   DEFAULT_VECTOR_DIMENSIONS)

\* a plausible slip: the collection is recreated whatever the flag says
\* createCollection of src/scripts/loadDb.ts: the same steps, but a collection
\* of another dimension is dropped and recreated without consulting any flag
loadDb_createCollection(c, fails) == CollectionSetup(c, TRUE, fails)

createCollection(c, flag, fails) == CollectionSetup(c, isEnabled(flag), fails)

\* which database call of createCollection fails, within the budget of faults
SetupFailures == IF faults < MaxFaults THEN {"none", "create", "recreate"} ELSE {"none"}

\* loadSampleData returns its counters and seed prints and logs the summary
\* (a failure to write the log file is caught)
SeedSummary(run) ==
  [run EXCEPT !.pc = "returned",
              !.summary = [printed |-> TRUE, processedUrls |-> run.processedUrls,
                           recordsAdded |-> run.recordsAdded,
                           totalEmbeddingTokens |-> run.totalEmbeddingTokens,
                           processedUrlList |-> run.processedUrlList]]

\* seed: createCollection, then loadSampleData with its locals; when
\* createCollection throws, seed rejects and loadSampleData is not called
SeedStart(s) ==
  /\ seed[s].pc = "init"
  /\ MayStart(s)
  /\ \E fails \in SetupFailures :
       LET res == createCollection(coll, scn.ALLOW_COLLECTION_RECREATE, fails) IN
       /\ seed' = [seed EXCEPT ![s] =
            IF res.threw THEN [SeedIdle EXCEPT !.pc = "aborted"]
            ELSE [SeedIdle EXCEPT !.pc = "loop", !.queue = scn.footballData,
                                  !.vectorDimensions = res.vectorDimensions]]
       /\ coll' = res.coll
       /\ store' = IF res.dropped THEN {} ELSE store
       /\ faults' = faults + (IF res.failed THEN 1 ELSE 0)
  /\ UNCHANGED <<scn, inflight, cron, retryVars, chatVars, filterVars, rateVars>>

\* i < queue.length fails: return the counters
SeedReturn(s) ==
  /\ seed[s].pc = "loop"
  /\ seed[s].i >= Len(seed[s].queue)
  /\ seed' = [seed EXCEPT ![s] = SeedSummary(seed[s])]
  /\ UNCHANGED <<scn, coll, store, inflight, faults, cron, retryVars, chatVars, filterVars, rateVars>>

\* type === "rss": the feed is expanded into article entries
SeedRss(s) ==
  LET run == seed[s] IN
  /\ run.pc = "loop"
  /\ run.i < Len(run.queue)
  /\ Entry(run).type = "rss"
  /\ \E k \in FailureCounts, links \in RssLinks(Entry(run).url) :
       LET res == WithRetry(FailsThenOk(k, links), RETRY_ATTEMPTS)
           called == Logged(run, run.i, Entry(run).url, "rss", res.calls,
                            IF res.threw THEN "threw" ELSE "ok")
       IN /\ seed' = [seed EXCEPT ![s] =
               IF res.threw
               THEN [called EXCEPT !.pc = "threw"]
               ELSE Expanded(called, res.val)]
          /\ faults' = faults + Fault(k)
  /\ UNCHANGED <<scn, coll, store, inflight, cron, retryVars, chatVars, filterVars, rateVars>>

\* if (maxUrls !== undefined && processedUrls >= maxUrls) break
SeedCapBreak(s) ==
  LET run == seed[s] IN
  /\ run.pc = "loop"
  /\ run.i < Len(run.queue)
  /\ Entry(run).type # "rss"
  /\ CapReached(run)
  /\ seed' = [seed EXCEPT ![s] = SeedSummary(run)]
  /\ UNCHANGED <<scn, coll, store, inflight, faults, cron, retryVars, chatVars, filterVars, rateVars>>

\* isBbcTeamPage(url): the hub page is expanded into article entries
SeedHub(s) ==
  LET run == seed[s] IN
  /\ run.pc = "loop"
  /\ run.i < Len(run.queue)
  /\ Entry(run).type # "rss"
  /\ ~CapReached(run)
  /\ isBbcTeamPage(Entry(run).url)
  /\ \E filtered \in HubLinks(Entry(run).url) :
       seed' = [seed EXCEPT ![s] =
         Expanded(Logged(run, run.i, Entry(run).url, "hub", 1, "ok"), filtered)]
  /\ UNCHANGED <<scn, coll, store, inflight, faults, cron, retryVars, chatVars, filterVars, rateVars>>

\* isBlocked(url) || !isLikelyHtml(url): skipped, and no sleep
SeedBlocked(s) ==
  LET run == seed[s] IN
  /\ run.pc = "loop"
  /\ run.i < Len(run.queue)
  /\ Entry(run).type # "rss"
  /\ ~CapReached(run)
  /\ ~isBbcTeamPage(Entry(run).url)
  /\ isBlocked(Entry(run).url) \/ ~isLikelyHtml(Entry(run).url)
  /\ seed' = [seed EXCEPT ![s] = Continue([run EXCEPT !.skippedUrls = @ + 1])]
  /\ UNCHANGED <<scn, coll, store, inflight, faults, cron, retryVars, chatVars, filterVars, rateVars>>

\* a plausible slip: the URL is passed over without being counted
SkippedUncounted(run) == Continue(Sleep(run, Entry(run).delay))

\* Skipped ${url}: skippedUrls += 1; await sleep(delay); continue
Skipped(run) == Continue(Sleep([run EXCEPT !.skippedUrls = @ + 1], Entry(run).delay))

\* a plausible slip: parent chunks are filtered by length only
KeepParentByLength(chunk) == chunk.len >= 120

KeepParent(chunk) == chunk.len >= 120 /\ ~isLowValueContent(chunk)

KeepChild(c) == c.len >= 80 /\ ~isLowValueContent(c)

\* a plausible slip: the URL goes on without child chunks
NoChildTextsNever(childTexts) == FALSE

\* childTexts.length === 0
NoChildTexts(childTexts) == Len(childTexts) = 0

\* from the scraped content to the documents to embed and insert, or to a skip
Chunked(s, run, content) ==
  IF content.len < 200 THEN Skipped(run)
  ELSE IF isLowValueContent(content) THEN Skipped(run)
  ELSE LET filteredParents == SelectSeq(SplitParents(content), KeepParent)
           scrapedAt == <<s, run.i>>
           children == ChildrenOf(filteredParents,
                         [k \in 1..Len(filteredParents) |->
                            SelectSeq(SplitChildren(filteredParents[k]), KeepChild)], 1)
       IN IF Len(filteredParents) = 0 THEN Skipped(run)
          ELSE IF NoChildTexts(children) THEN Skipped(run)
          ELSE [run EXCEPT
                  !.pc = "embed",
                  !.b = 0,
                  !.scrapedAt = scrapedAt,
                  !.parentDocs = [k \in 1..Len(filteredParents) |->
                     ParentRecord(filteredParents[k], Entry(run).source,
                                  Entry(run).url, scrapedAt)],
                  !.childTexts = [k \in 1..Len(children) |-> children[k].text],
                  !.childMeta = [k \in 1..Len(children) |->
                                   [parentId |-> children[k].parentId]],
                  !.allVectors = <<>>]

\* scrapPage never throws for an html entry: on an error of the browser (a
\* navigation timeout, a crash), or for an interstitial page, it returns "";
\* the scrape that fails is the one that does not return the text of the page
ScrapPage(url) == {PageText(url)} \cup (IF faults < MaxFaults THEN {EmptyTxt} ELSE {})

\* withRetry(scrapPage), the content checks and the parent-child chunking
SeedScrape(s) ==
  LET run == seed[s] IN
  /\ run.pc = "loop"
  /\ run.i < Len(run.queue)
  /\ Entry(run).type # "rss"
  /\ ~CapReached(run)
  /\ ~isBbcTeamPage(Entry(run).url)
  /\ ~(isBlocked(Entry(run).url) \/ ~isLikelyHtml(Entry(run).url))
  /\ \E content \in ScrapPage(Entry(run).url) :
       LET res == WithRetry(FailsThenOk(0, content), RETRY_ATTEMPTS)
       IN /\ seed' = [seed EXCEPT ![s] =
               Chunked(s, Logged(run, run.i, Entry(run).url, "scrape", res.calls,
                                  IF content = PageText(Entry(run).url) THEN "ok"
                                  ELSE "failed"),
                       res.val)]
          /\ faults' = faults + (IF content # PageText(Entry(run).url) THEN 1 ELSE 0)
  /\ UNCHANGED <<scn, coll, store, inflight, cron, retryVars, chatVars, filterVars, rateVars>>

\* catch (err) { failedUrls += 1; await sleep(delay); continue; }
Failed(run) == Continue(Sleep([run EXCEPT !.failedUrls = @ + 1], Entry(run).delay))

\* a plausible slip: the embedding error is swallowed and the inserts go ahead
EmbedFailedSwallowed(run) == [run EXCEPT !.pc = "parents", !.b = 0]

\* the embedding error reaches the catch of the URL
EmbedFailed(run) == Failed(run)

\* a plausible slip: only the first batch is handled
MoreBatchesNever(nextB, items) == FALSE

\* b < items.length after b += BATCH: another batch follows
MoreBatches(nextB, items) == nextB < Len(items)

\* Step 3: one batch of child texts is embedded, with retry
SeedEmbed(s) ==
  LET run == seed[s]
      batch == Slice(run.childTexts, run.b, run.b + EMBED_BATCH)
      enriched == [k \in 1..Len(batch) |-> Enrich(Entry(run).source, batch[k])]
  IN
  /\ run.pc = "embed"
  /\ \E k \in FailureCounts :
       LET res == WithRetry(FailsThenOk(k, EmbeddingsCreate(enriched)), RETRY_ATTEMPTS)
           called == Logged(run, run.i, Entry(run).url, "embed", run.b,
                            IF res.threw THEN "threw" ELSE "ok")
           nextB == run.b + EMBED_BATCH
       IN /\ seed' = [seed EXCEPT ![s] =
               IF res.threw THEN EmbedFailed(called)
               ELSE [called EXCEPT
                       !.allVectors = @ \o res.val.data,
                       !.totalEmbeddingTokens = @ + res.val.total_tokens,
                       !.b = IF MoreBatches(nextB, run.childTexts) THEN nextB ELSE 0,
                       !.pc = IF MoreBatches(nextB, run.childTexts) THEN "embed"
                              ELSE "parents"]]
          /\ faults' = faults + Fault(k)
  /\ UNCHANGED <<scn, coll, store, inflight, cron, retryVars, chatVars, filterVars, rateVars>>

\* Step 4: collection.insertMany(parentDocs.slice(b, b + INSERT_BATCH)) is issued
SeedInsertParents(s) ==
  LET run == seed[s]
      batch == Slice(run.parentDocs, run.b, run.b + INSERT_BATCH)
  IN
  /\ run.pc = "parents"
  /\ seed' = [seed EXCEPT ![s] =
       [Logged(run, run.i, Entry(run).url, "parents", run.b, "issued")
          EXCEPT !.pc = "parentsWait"]]
  /\ inflight' = [inflight EXCEPT ![s] = Request(batch)]
  /\ UNCHANGED <<scn, coll, store, faults, cron, retryVars, chatVars, filterVars, rateVars>>

OutcomeName(outcome) ==
  IF outcome.ok THEN "ok" ELSE IF outcome.fault THEN "error" ELSE "duplicate"

\* the parent insertMany returns or throws
SeedParentsReturn(s) ==
  LET run == seed[s] IN
  /\ run.pc = "parentsWait"
  /\ \E outcome \in InsertOutcomes(inflight[s]) :
       LET h == OnInsert(run.recordsAdded, outcome)
           called == [Logged(run, run.i, Entry(run).url, "parents", run.b,
                             OutcomeName(outcome))
                        EXCEPT !.recordsAdded = h.recordsAdded]
           nextB == run.b + INSERT_BATCH
       IN /\ seed' = [seed EXCEPT ![s] =
               IF h.threw THEN Failed(called)
               ELSE [called EXCEPT
                       !.b = IF MoreBatches(nextB, run.parentDocs) THEN nextB ELSE 0,
                       !.pc = IF MoreBatches(nextB, run.parentDocs) THEN "parents"
                              ELSE "children"]]
          /\ faults' = faults + (IF outcome.fault THEN 1 ELSE 0)
  /\ inflight' = [inflight EXCEPT ![s] = NoRequest]
  /\ UNCHANGED <<scn, coll, store, cron, retryVars, chatVars, filterVars, rateVars>>

\* a plausible slip: childMeta is read at the index within the batch
ChildBatchByIdx(run) ==
  LET texts == Slice(run.childTexts, run.b, run.b + INSERT_BATCH) IN
  [idx \in 1..Len(texts) |->
     ChildRecord(texts[idx], run.childMeta[idx].parentId, Entry(run).source,
                 Entry(run).url, run.scrapedAt, run.allVectors[run.b + idx])]

\* a plausible slip: the vector is read at the index within the insert batch
ChildBatchLocalVector(run) ==
  LET texts == Slice(run.childTexts, run.b, run.b + INSERT_BATCH) IN
  [idx \in 1..Len(texts) |->
     ChildRecord(texts[idx], run.childMeta[run.b + idx].parentId, Entry(run).source,
                 Entry(run).url, run.scrapedAt, run.allVectors[idx])]

\* the child documents of one insert batch, paired by globalIdx
ChildBatch(run) ==
  LET texts == Slice(run.childTexts, run.b, run.b + INSERT_BATCH) IN
  [idx \in 1..Len(texts) |->
     ChildRecord(texts[idx], run.childMeta[run.b + idx].parentId, Entry(run).source,
                 Entry(run).url, run.scrapedAt, run.allVectors[run.b + idx])]

\* Step 5: collection.insertMany(batchDocs) is issued
SeedInsertChildren(s) ==
  LET run == seed[s] IN
  /\ run.pc = "children"
  /\ seed' = [seed EXCEPT ![s] =
       [Logged(run, run.i, Entry(run).url, "children", run.b, "issued")
          EXCEPT !.pc = "childrenWait"]]
  /\ inflight' = [inflight EXCEPT ![s] = Request(ChildBatch(run))]
  /\ UNCHANGED <<scn, coll, store, faults, cron, retryVars, chatVars, filterVars, rateVars>>

\* processedUrls += 1; processedUrlList.push(url); await sleep(delay)
Completed(run) ==
  Continue(Sleep([run EXCEPT !.processedUrls = @ + 1,
                             !.processedUrlList = Append(@, Entry(run).url)],
                 Entry(run).delay))

\* the child insertMany returns or throws
SeedChildrenReturn(s) ==
  LET run == seed[s] IN
  /\ run.pc = "childrenWait"
  /\ \E outcome \in InsertOutcomes(inflight[s]) :
       LET h == OnInsert(run.recordsAdded, outcome)
           called == [Logged(run, run.i, Entry(run).url, "children", run.b,
                             OutcomeName(outcome))
                        EXCEPT !.recordsAdded = h.recordsAdded]
           nextB == run.b + INSERT_BATCH
       IN /\ seed' = [seed EXCEPT ![s] =
               IF h.threw THEN Failed(called)
               ELSE IF MoreBatches(nextB, run.childTexts)
                    THEN [called EXCEPT !.b = nextB, !.pc = "children"]
                    ELSE Completed(called)]
          /\ faults' = faults + (IF outcome.fault THEN 1 ELSE 0)
  /\ inflight' = [inflight EXCEPT ![s] = NoRequest]
  /\ UNCHANGED <<scn, coll, store, cron, retryVars, chatVars, filterVars, rateVars>>

-----------------------------------------------------------------------------
(* GET /api/cron/update-db *)

RSS_FEEDS ==
  <<[url |-> "feed1", source |-> <<"src", "feed1">>],
    [url |-> "feed2", source |-> <<"src", "feed2">>]>>

CronIdle ==
  [pc |-> "init", feed |-> 0, articles |-> <<>>, a |-> 0, newArticles |-> 0,
   skipped |-> 0, totalTokens |-> 0, errors |-> <<>>, status |-> 0,
   parentDocs |-> <<>>, childTexts |-> <<>>, childMeta |-> <<>>,
   allVectors |-> <<>>, scrapedAt |-> <<>>, b |-> 0, log |-> <<>>,
   authorized |-> FALSE]

Feed(run) == RSS_FEEDS[run.feed + 1]

Article(run) == run.articles[run.a + 1]

CronLogged(run, op, arg, ev) ==
  Logged(run, <<run.feed, run.a>>,
         IF run.a < Len(run.articles) THEN Article(run) ELSE Feed(run).url, op, arg, ev)

CronLocalsGone(run) ==
  [run EXCEPT !.parentDocs = <<>>, !.childTexts = <<>>, !.childMeta = <<>>,
              !.allVectors = <<>>, !.scrapedAt = <<>>, !.b = 0]

\* continue: on to the next article of the feed
NextArticle(run) == [CronLocalsGone(run) EXCEPT !.a = @ + 1, !.pc = "article"]

\* catch (err) { errors.push(...) }: the rest of the feed is dropped
FeedFailed(run, msg) ==
  [CronLocalsGone(run) EXCEPT !.errors = Append(@, <<Feed(run).source, msg>>),
                              !.feed = @ + 1, !.articles = <<>>, !.a = 0, !.pc = "feed"]

\* whether the authorization header can be `Bearer ${CRON_SECRET}`: with no
\* secret configured there is no correct secret to carry
Bearers == IF scn.CRON_SECRET THEN BOOLEAN ELSE {FALSE}

\* the bearer check: only when CRON_SECRET is set
CronStart(c) ==
  /\ cron[c].pc = "init"
  /\ MayStart(c)
  /\ \E authorized \in Bearers :
       cron' = [cron EXCEPT ![c] =
         IF scn.CRON_SECRET /\ ~authorized
         THEN [CronIdle EXCEPT !.pc = "responded", !.status = 401]
         ELSE [CronIdle EXCEPT !.pc = "feed", !.authorized = authorized]]
  /\ UNCHANGED <<scn, coll, store, inflight, faults, seed, retryVars, chatVars, filterVars, rateVars>>

\* the feeds are exhausted: NextResponse.json(summary)
CronRespond(c) ==
  /\ cron[c].pc = "feed"
  /\ cron[c].feed >= Len(RSS_FEEDS)
  /\ cron' = [cron EXCEPT ![c].pc = "responded", ![c].status = 200]
  /\ UNCHANGED <<scn, coll, store, inflight, faults, seed, retryVars, chatVars, filterVars, rateVars>>

\* extractRssLinks(feed.url): the links, [] when the answer is not ok, or a throw
CronFeed(c) ==
  LET run == cron[c] IN
  /\ run.pc = "feed"
  /\ run.feed < Len(RSS_FEEDS)
  /\ \/ /\ \E links \in RssLinks(Feed(run).url) \cup {<<>>} :
             cron' = [cron EXCEPT ![c] =
               [CronLogged(run, "rss", 1, "ok") EXCEPT !.articles = links, !.a = 0,
                                                       !.pc = "article"]]
        /\ UNCHANGED faults
     \/ /\ faults < MaxFaults
        /\ cron' = [cron EXCEPT ![c] =
             FeedFailed(CronLogged(run, "rss", 1, "threw"), "fetch failed")]
        /\ faults' = faults + 1
  /\ UNCHANGED <<scn, coll, store, inflight, seed, retryVars, chatVars, filterVars, rateVars>>

\* the articles of the feed are done: next feed
CronFeedDone(c) ==
  LET run == cron[c] IN
  /\ run.pc = "article"
  /\ run.a >= Len(run.articles)
  /\ cron' = [cron EXCEPT ![c] = [run EXCEPT !.feed = @ + 1, !.articles = <<>>,
                                             !.a = 0, !.pc = "feed"]]
  /\ UNCHANGED <<scn, coll, store, inflight, faults, seed, retryVars, chatVars, filterVars, rateVars>>

CronSkipped(run) == NextArticle([run EXCEPT !.skipped = @ + 1])

KeepCronParent(c) == c.len >= 120

KeepCronChild(c) == c.len >= 80

\* scrapeArticle: the cleaned text when it has 200 characters or more, else ""
ScrapeArticle(url) ==
  {IF PageText(url).len >= 200 THEN PageText(url) ELSE EmptyTxt}
  \cup (IF faults < MaxFaults THEN {EmptyTxt} ELSE {})

CronChunked(c, run, content) ==
  IF content.len = 0 THEN CronSkipped(run)
  ELSE LET filteredParents == SelectSeq(SplitParents(content), KeepCronParent)
           scrapedAt == <<c, run.feed, run.a>>
           children == ChildrenOf(filteredParents,
                         [k \in 1..Len(filteredParents) |->
                            SelectSeq(SplitChildren(filteredParents[k]), KeepCronChild)], 1)
       IN IF Len(filteredParents) = 0 THEN CronSkipped(run)
          ELSE IF Len(children) = 0 THEN CronSkipped(run)
          ELSE [run EXCEPT
                  !.pc = "embed",
                  !.b = 0,
                  !.scrapedAt = scrapedAt,
                  !.parentDocs = [k \in 1..Len(filteredParents) |->
                     ParentRecord(filteredParents[k], Feed(run).source,
                                  Article(run), scrapedAt)],
                  !.childTexts = [k \in 1..Len(children) |-> children[k].text],
                  !.childMeta = [k \in 1..Len(children) |->
                                   [parentId |-> children[k].parentId]],
                  !.allVectors = <<>>]

\* a plausible slip: the existence check never finds anything
FindOneNever(stored, url) == FALSE

\* collection.findOne({ url }): some document of that URL, of any type
FindOne(stored, url) == \E d \in stored : d.url = url

\* one article: the existence check by URL, the scrape and the chunking
CronArticle(c) ==
  LET run == cron[c] IN
  /\ run.pc = "article"
  /\ run.a < Len(run.articles)
  /\ IF FindOne(store, Article(run))
     THEN /\ cron' = [cron EXCEPT ![c] = CronSkipped(CronLogged(run, "exists", 0, "ok"))]
          /\ UNCHANGED faults
     ELSE \E content \in ScrapeArticle(Article(run)) :
            /\ cron' = [cron EXCEPT ![c] =
                 CronChunked(c, CronLogged(run, "scrape", 1, "ok"), content)]
            /\ faults' = faults + (IF content # PageText(Article(run)) THEN 1 ELSE 0)
  /\ UNCHANGED <<scn, coll, store, inflight, seed, retryVars, chatVars, filterVars, rateVars>>

\* one batch of child texts is embedded; no retry here
CronEmbed(c) ==
  LET run == cron[c]
      batch == Slice(run.childTexts, run.b, run.b + EMBED_BATCH)
      enriched == [k \in 1..Len(batch) |-> Enrich(Feed(run).source, batch[k])]
      embRes == EmbeddingsCreate(enriched)
      nextB == run.b + EMBED_BATCH
  IN
  /\ run.pc = "embed"
  /\ \/ /\ cron' = [cron EXCEPT ![c] =
             [CronLogged(run, "embed", run.b, "ok") EXCEPT
                !.allVectors = @ \o embRes.data,
                !.totalTokens = @ + embRes.total_tokens,
                !.b = IF nextB < Len(run.childTexts) THEN nextB ELSE 0,
                !.pc = IF nextB < Len(run.childTexts) THEN "embed" ELSE "parents"]]
        /\ UNCHANGED faults
     \/ /\ faults < MaxFaults
        /\ cron' = [cron EXCEPT ![c] =
             FeedFailed(CronLogged(run, "embed", run.b, "threw"), "embedding failed")]
        /\ faults' = faults + 1
  /\ UNCHANGED <<scn, coll, store, inflight, seed, retryVars, chatVars, filterVars, rateVars>>

\* collection.insertMany(parentDocs): all the parents in one call
CronInsertParents(c) ==
  LET run == cron[c] IN
  /\ run.pc = "parents"
  /\ cron' = [cron EXCEPT ![c] =
       [CronLogged(run, "parents", 0, "issued") EXCEPT !.pc = "parentsWait"]]
  /\ inflight' = [inflight EXCEPT ![c] = Request(run.parentDocs)]
  /\ UNCHANGED <<scn, coll, store, faults, seed, retryVars, chatVars, filterVars, rateVars>>

\* if (!msg.includes("already exists") && !msg.includes("duplicate")) throw e
OnCronInsert(outcome) ==
  IF outcome.ok THEN [threw |-> FALSE]
  ELSE [threw |-> ~MsgIncludes(outcome.message, "already exists")
                  /\ ~MsgIncludes(outcome.message, "duplicate")]

CronParentsReturn(c) ==
  LET run == cron[c] IN
  /\ run.pc = "parentsWait"
  /\ \E outcome \in InsertOutcomes(inflight[c]) :
       LET called == CronLogged(run, "parents", 0, OutcomeName(outcome)) IN
       /\ cron' = [cron EXCEPT ![c] =
            IF OnCronInsert(outcome).threw THEN FeedFailed(called, outcome.message)
            ELSE [called EXCEPT !.b = 0, !.pc = "children"]]
       /\ faults' = faults + (IF outcome.fault THEN 1 ELSE 0)
  /\ inflight' = [inflight EXCEPT ![c] = NoRequest]
  /\ UNCHANGED <<scn, coll, store, seed, retryVars, chatVars, filterVars, rateVars>>

\* childDocs.slice(b, b + INSERT_BATCH)
CronChildBatch(run) ==
  LET texts == Slice(run.childTexts, run.b, run.b + INSERT_BATCH) IN
  [idx \in 1..Len(texts) |->
     ChildRecord(texts[idx], run.childMeta[run.b + idx].parentId, Feed(run).source,
                 Article(run), run.scrapedAt, run.allVectors[run.b + idx])]

CronInsertChildren(c) ==
  LET run == cron[c] IN
  /\ run.pc = "children"
  /\ cron' = [cron EXCEPT ![c] =
       [CronLogged(run, "children", run.b, "issued") EXCEPT !.pc = "childrenWait"]]
  /\ inflight' = [inflight EXCEPT ![c] = Request(CronChildBatch(run))]
  /\ UNCHANGED <<scn, coll, store, faults, seed, retryVars, chatVars, filterVars, rateVars>>

CronChildrenReturn(c) ==
  LET run == cron[c] IN
  /\ run.pc = "childrenWait"
  /\ \E outcome \in InsertOutcomes(inflight[c]) :
       LET called == CronLogged(run, "children", run.b, OutcomeName(outcome))
           nextB == run.b + INSERT_BATCH
       IN
       /\ cron' = [cron EXCEPT ![c] =
            IF OnCronInsert(outcome).threw THEN FeedFailed(called, outcome.message)
            ELSE IF nextB < Len(run.childTexts)
                 THEN [called EXCEPT !.b = nextB, !.pc = "children"]
                 ELSE NextArticle([called EXCEPT !.newArticles = @ + 1])]
       /\ faults' = faults + (IF outcome.fault THEN 1 ELSE 0)
  /\ inflight' = [inflight EXCEPT ![c] = NoRequest]
  /\ UNCHANGED <<scn, coll, store, seed, retryVars, chatVars, filterVars, rateVars>>

-----------------------------------------------------------------------------
(* POST /api/chat: parent-child retrieval *)

\* a field the document does not have
Undefined == "undefined"

\* Boolean(id)
Truthy(id) == id # Undefined /\ id # ""

ChildKeys == {"c1", "c2", "c3", "c4"}

ParentKeys == {"p1", "p2", "p3"}

\* the text a document carries
ChatText == [c1 |-> "child text 1", c2 |-> "child text 2", c3 |-> "child text 3",
             c4 |-> "child text 4",
             p1 |-> "parent text 1", p2 |-> "parent text 2", p3 |-> "parent text 3"]

\* a child chunk as the search projects it
ChatChild(id, parentId) ==
  [_id |-> id, parentId |-> parentId, content |-> ChatText[id], type |-> "child"]

\* a parent chunk as the lookup projects it
ChatParent(id) == [_id |-> id, content |-> ChatText[id], type |-> "parent"]

\* child chunks the store may hold: of parent p1, of parent p2, or without a
\* parentId
ChatChildDocs == {ChatChild(id, p) : id \in ChildKeys, p \in {"p1", "p2", Undefined}}

\* answers of the vector search: up to MaxChildren child chunks, best match
\* first, no document twice
SearchResults ==
  UNION {{q \in [1..n -> ChatChildDocs] :
            \A i, j \in 1..n : i # j => q[i]._id # q[j]._id} : n \in 0..MaxChildren}

\* a request: what the search answers and which parent documents exist
ChatInputs == [children : SearchResults, parents : SUBSET ParentKeys]

\* every order in which a find can return the documents of S
Orderings(S) ==
  {q \in [1..Cardinality(S) -> S] :
     \A i, j \in 1..Cardinality(S) : i # j => q[i] # q[j]}

\* childDocs.map((d) => d.parentId).filter((id) => Boolean(id))
ParentIdsAll(childDocs) ==
  SelectSeq([k \in 1..Len(childDocs) |-> childDocs[k].parentId], Truthy)

\* Array.from(new Set(ids)): a Set keeps the order of first insertion
RECURSIVE FromSet(_)
FromSet(ids) ==
  IF ids = <<>> THEN <<>>
  ELSE LET front == FromSet(SubSeq(ids, 1, Len(ids) - 1))
           last == ids[Len(ids)]
       IN IF \E k \in 1..Len(front) : front[k] = last THEN front
          ELSE Append(front, last)

\* a plausible slip: the ids are looked up without de-duplication
ParentIdsRepeated(childDocs) == ParentIdsAll(childDocs)

ParentIdsOf(childDocs) == FromSet(ParentIdsAll(childDocs))

\* the documents { _id: { $in: parentIds } } matches
Matching(stored, parentIds) ==
  {ChatParent(id) : id \in {p \in stored : \E k \in 1..Len(parentIds) : parentIds[k] = p}}

\* docs.map((d) => d.content)
Contents(docs) == [k \in 1..Len(docs) |-> docs[k].content]

\* JSON.stringify of an array of strings, token by token (commas left out);
\* the empty string is <<>>
JSONstringify(arr) == <<"[">> \o arr \o <<"]">>

\* a plausible slip: no fallback to the children
ContextParentsOnly(docContent, parents, childDocs) ==
  IF Len(parents) > 0 THEN JSONstringify(Contents(parents)) ELSE docContent

\* step 3: parents when there are any, else the children, else what it was
Context(docContent, parents, childDocs) ==
  IF Len(parents) > 0 THEN JSONstringify(Contents(parents))
  ELSE IF Len(childDocs) > 0 THEN JSONstringify(Contents(childDocs))
  ELSE docContent

NoResponse == [status |-> 0, body |-> "none"]

\* the handler's locals once the request passed the rate limiter and carries
\* a message: nothing retrieved yet, no completion asked for
ChatIdle ==
  [pc |-> "embed", childDocs |-> <<>>, parentIds |-> <<>>, parents |-> <<>>,
   docContent |-> <<>>, threw |-> FALSE, steps |-> <<>>,
   template |-> <<>>, completion |-> "none", response |-> NoResponse]

\* the outer catch: Response.json({ error }, { status: 500 })
ChatFailed(run) ==
  [run EXCEPT !.pc = "responded", !.response = [status |-> 500, body |-> "error"]]

\* a plausible slip: a failing store query is not caught around the search
ChatRethrown(run) == ChatFailed([run EXCEPT !.threw = TRUE])

\* catch (error) { docContent = "" }
ChatCaught(run) == [run EXCEPT !.pc = "template", !.docContent = <<>>, !.threw = TRUE]

\* the step the handler has just taken
ChatStep(run, step) == [run EXCEPT !.steps = Append(@, step)]

\* query rewrite and query embedding: an error of either is not caught before
\* the outer catch
ChatEmbed ==
  /\ chatOut.pc = "embed"
  /\ \E fails \in BOOLEAN :
       chatOut' = IF fails THEN ChatFailed(ChatStep(chatOut, "embed"))
                  ELSE [ChatStep(chatOut, "embed") EXCEPT !.pc = "search"]
  /\ UNCHANGED chatIn

\* step 1: the vector search over child chunks
ChatSearch ==
  /\ chatOut.pc = "search"
  /\ \E fails \in BOOLEAN :
       chatOut' = IF fails THEN ChatCaught(ChatStep(chatOut, "search"))
                  ELSE [ChatStep(chatOut, "search") EXCEPT
                          !.pc = "parents", !.childDocs = chatIn.children]
  /\ UNCHANGED chatIn

\* step 2: the parents of the children found
ChatParents ==
  /\ chatOut.pc = "parents"
  /\ LET parentIds == ParentIdsOf(chatOut.childDocs)
         run == [ChatStep(chatOut, "parents") EXCEPT !.parentIds = parentIds]
     IN IF Len(parentIds) > 0
        THEN \E fails \in BOOLEAN, found \in Orderings(Matching(chatIn.parents, parentIds)) :
               chatOut' = IF fails THEN ChatCaught(run)
                          ELSE [run EXCEPT !.pc = "context", !.parents = found]
        ELSE chatOut' = [run EXCEPT !.pc = "context"]
  /\ UNCHANGED chatIn

\* step 3, and the collection check of an empty search
ChatContext ==
  /\ chatOut.pc = "context"
  /\ LET run == [ChatStep(chatOut, "context") EXCEPT
                   !.pc = "template",
                   !.docContent = Context(@, chatOut.parents, chatOut.childDocs)]
     IN IF Len(chatOut.childDocs) = 0
        THEN \E fails \in BOOLEAN : chatOut' = IF fails THEN ChatCaught(run) ELSE run
        ELSE chatOut' = run
  /\ UNCHANGED chatIn

-----------------------------------------------------------------------------
(* The rate limiter of the chat route *)

\* Number(process.env.RATE_LIMIT_WINDOW_MS) || 60_000
RATE_LIMIT_WINDOW_MS == 60000

\* Number(process.env.MAX_REQUESTS_PER_WINDOW) || 12, here configured to 2
MAX_REQUESTS_PER_WINDOW == 2

Max(a, b) == IF a > b THEN a ELSE b

\* the requests of the world: x-forwarded-for as the list of its addresses
\* (none when the header is missing or empty), x-real-ip ("" when missing)
ChatRequests ==
  [forwardedFor : {<<>>, <<"ip1", "ip2">>}, realIp : {"", "ip1"}]

getClientIp(request) ==
  IF request.forwardedFor # <<>> THEN request.forwardedFor[1]
  ELSE IF request.realIp # "" THEN request.realIp
  ELSE "unknown"

ClientKeys == {getClientIp(request) : request \in ChatRequests}

\* how far Date.now() may have moved between two requests: the same
\* millisecond, the next, and the two sides of the window's edge
ClockSteps == {0, 1, RATE_LIMIT_WINDOW_MS - 1, RATE_LIMIT_WINDOW_MS}

\* a plausible slip: the comparison with the maximum is off by one
getRateLimitStatusOffByOne(key, buckets, now) ==
  LET cutoff == now - RATE_LIMIT_WINDOW_MS
      recent == SelectSeq(buckets[key], LAMBDA ts : ts > cutoff)
  IN IF Len(recent) > MAX_REQUESTS_PER_WINDOW
     THEN [allowed |-> FALSE,
           retryAfterMs |-> Max(1000, RATE_LIMIT_WINDOW_MS - (now - recent[1])),
           requestBuckets |-> [buckets EXCEPT ![key] = recent]]
     ELSE [allowed |-> TRUE, retryAfterMs |-> 0,
           requestBuckets |-> [buckets EXCEPT ![key] = Append(recent, now)]]

\* a plausible slip: the denied request is recorded as well
getRateLimitStatusRecordsDenied(key, buckets, now) ==
  LET cutoff == now - RATE_LIMIT_WINDOW_MS
      recent == SelectSeq(buckets[key], LAMBDA ts : ts > cutoff)
  IN IF Len(recent) >= MAX_REQUESTS_PER_WINDOW
     THEN [allowed |-> FALSE,
           retryAfterMs |-> Max(1000, RATE_LIMIT_WINDOW_MS - (now - recent[1])),
           requestBuckets |-> [buckets EXCEPT ![key] = Append(Tail(recent), now)]]
     ELSE [allowed |-> TRUE, retryAfterMs |-> 0,
           requestBuckets |-> [buckets EXCEPT ![key] = Append(recent, now)]]

\* getRateLimitStatus(key) at Date.now() = now, with the map as it leaves it
getRateLimitStatus(key, buckets, now) ==
  LET cutoff == now - RATE_LIMIT_WINDOW_MS
      recent == SelectSeq(buckets[key], LAMBDA ts : ts > cutoff)
  IN IF Len(recent) >= MAX_REQUESTS_PER_WINDOW
     THEN [allowed |-> FALSE,
           retryAfterMs |-> Max(1000, RATE_LIMIT_WINDOW_MS - (now - recent[1])),
           requestBuckets |-> [buckets EXCEPT ![key] = recent]]
     ELSE [allowed |-> TRUE, retryAfterMs |-> 0,
           requestBuckets |-> [buckets EXCEPT ![key] = Append(recent, now)]]

\* no request was sent: requestBuckets.get(key) ?? [] is [] for every key
NoRate ==
  /\ requestBuckets = [key \in ClientKeys |-> <<>>]
  /\ clock = 0
  /\ served = <<>>

\* POST up to the answer of the limiter: 429 with Retry-After, or on to the
\* retrieval; Date.now() does not go back between two requests
Post ==
  /\ Len(served) < MaxRequests
  /\ \E request \in ChatRequests, step \in ClockSteps :
       LET now == clock + step
           clientIp == getClientIp(request)
           rateLimit == getRateLimitStatus(clientIp, requestBuckets, now)
       IN /\ clock' = now
          /\ requestBuckets' = rateLimit.requestBuckets
          /\ served' = Append(served,
               [key |-> clientIp, at |-> now, allowed |-> rateLimit.allowed,
                status |-> IF rateLimit.allowed THEN 0 ELSE 429,
                retryAfterSeconds |->
                  IF rateLimit.allowed THEN 0
                  ELSE (rateLimit.retryAfterMs + 999) \div 1000])

-----------------------------------------------------------------------------
(* Specifications *)

Idle ==
  /\ coll = scn.collection
  /\ store = scn.stored
  /\ inflight = [r \in Runs |-> NoRequest]
  /\ faults = 0
  /\ seed = [s \in SeedRuns |-> SeedIdle]
  /\ cron = [c \in CronRuns |-> CronIdle]

NoRetry ==
  /\ retryIn = [fn |-> [k \in 1..MaxAttempts |-> [ok |-> TRUE, val |-> "r1"]], attempts |-> 1]
  /\ retryOut = [pc |-> "unused"]

NoChat ==
  /\ chatIn = [children |-> <<>>, parents |-> {}]
  /\ chatOut = [pc |-> "unused"]

Page(url) == Item(url, "html", 2)

Rss(url) == Item(url, "rss", 1)

Hub(url) == Item(url, "html", 30)

\* seed lists shaped like footballData: pages (one listed twice, as
\* bbc.com/sport/football/africa is), a team hub, and the feeds last
SeedScenarios ==
  { Scenario("crawl", <<Page("art1"), Page("art1"), Page("video"), Hub("hub"),
                        Rss("feed1"), Rss("feed2")>>, NoCap,
             {<<"art1", "art2">>}, {<<"page2", "art2", "thin">>, <<>>},
             {<<"hub", "page2", "video", "art1", "page2">>}, TRUE, {"s1"}, FALSE),
    Scenario("capped", <<Page("page1"), Rss("feed1"), Page("stub"), Page("page2"),
                         Page("junk"), Rss("feed2")>>, <<2>>,
             {<<"art1">>}, {<<>>}, {<<>>}, TRUE, {"s1"}, FALSE),
    Scenario("twice", <<Page("page1"), Page("page2")>>, NoCap,
             {<<>>}, {<<>>}, {<<>>}, TRUE, {"s1", "s2"}, FALSE),
    Scenario("big", <<Page("page1"), Page("big")>>, NoCap,
             {<<>>}, {<<>>}, {<<>>}, TRUE, {"s1"}, FALSE),
    Scenario("stats", <<Page("table"), Page("art1")>>, NoCap,
             {<<>>}, {<<>>}, {<<>>}, TRUE, {"s1"}, FALSE),
    [Scenario("cron", <<Page("page1"), Page("brief")>>, NoCap,
              {<<"art1", "page2">>}, {<<"page1", "art2", "brief">>}, {<<>>}, TRUE, {"s1", "c1"}, FALSE)
       EXCEPT !.collection = Collection(DEFAULT_VECTOR_DIMENSIONS)] }

\* overlapping runs over the same page
RaceScenarios ==
  { Scenario("seeds", <<Page("page1")>>, NoCap,
             {<<>>}, {<<>>}, {<<>>}, TRUE, {"s1", "s2"}, TRUE),
    [Scenario("mixed", <<Page("page1")>>, NoCap,
              {<<"page1">>}, {<<>>}, {<<>>}, FALSE, {"s1", "c1"}, TRUE)
       EXCEPT !.collection = Collection(DEFAULT_VECTOR_DIMENSIONS)] }

\* the schedule fires twice over the same feeds, on a collection that exists
CronScenarios ==
  { [Scenario("recover", <<>>, NoCap,
              {<<"art1", "page2">>}, {<<"art2">>}, {<<>>}, TRUE, {"c1", "c2"}, FALSE)
       EXCEPT !.collection = Collection(DEFAULT_VECTOR_DIMENSIONS)] }

\* seed of src/scripts/loadDb.ts up to the call of its loadSampleData: the
\* script's own crawl ("loadDb") is not followed further
LoadDbStart(s) ==
  /\ seed[s].pc = "init"
  /\ MayStart(s)
  /\ \E fails \in SetupFailures :
       LET res == loadDb_createCollection(coll, fails) IN
       /\ seed' = [seed EXCEPT ![s] =
                     IF res.threw THEN [SeedIdle EXCEPT !.pc = "aborted"]
                     ELSE [SeedIdle EXCEPT !.pc = "loadDb",
                                           !.vectorDimensions = res.vectorDimensions]]
       /\ coll' = res.coll
       /\ store' = IF res.dropped THEN {} ELSE store
       /\ faults' = faults + (IF res.failed THEN 1 ELSE 0)
  /\ UNCHANGED <<scn, inflight, cron, retryVars, chatVars, filterVars, rateVars>>

\* what the database may hold when seed starts: nothing, or a collection
\* created with the configured dimension, with another one, or with none
CollectionStates ==
  {NoCollection, Collection(DEFAULT_VECTOR_DIMENSIONS), Collection(1536), Collection(0)}

\* values of ALLOW_COLLECTION_RECREATE
FlagValues == {"", "true", "false", "1", "0"}

\* a document an earlier deployment left in the collection
LegacyDoc == ParentRecord(Txt("old", 1, 700), <<"src", "old">>, "old", <<"s0", 0>>)

\* one page seeded into every database and flag setting
SetupScenarios ==
  {[Scenario("setup", <<Page("page1")>>, NoCap, {<<>>}, {<<>>}, {<<>>}, TRUE, {"s1"}, FALSE)
      EXCEPT !.collection = c,
             !.stored = IF c.exists THEN {LegacyDoc} ELSE {},
             !.ALLOW_COLLECTION_RECREATE = f] :
     c \in CollectionStates, f \in FlagValues}

SeedNext(s) ==
  \/ SeedStart(s)
  \/ SeedReturn(s)
  \/ SeedRss(s)
  \/ SeedCapBreak(s)
  \/ SeedHub(s)
  \/ SeedBlocked(s)
  \/ SeedScrape(s)
  \/ SeedEmbed(s)
  \/ SeedInsertParents(s)
  \/ SeedParentsReturn(s)
  \/ SeedInsertChildren(s)
  \/ SeedChildrenReturn(s)

CronNext(c) ==
  \/ CronStart(c)
  \/ CronRespond(c)
  \/ CronFeed(c)
  \/ CronFeedDone(c)
  \/ CronArticle(c)
  \/ CronEmbed(c)
  \/ CronInsertParents(c)
  \/ CronParentsReturn(c)
  \/ CronInsertChildren(c)
  \/ CronChildrenReturn(c)

\* the steps of loadSampleData on a page entry: the race scenarios list pages only
SeedPageNext(s) ==
  \/ SeedStart(s)
  \/ SeedReturn(s)
  \/ SeedScrape(s)
  \/ SeedEmbed(s)
  \/ SeedInsertParents(s)
  \/ SeedParentsReturn(s)
  \/ SeedInsertChildren(s)
  \/ SeedChildrenReturn(s)

NextRace ==
  \/ \E s \in SeedRuns : SeedPageNext(s)
  \/ \E c \in CronRuns : CronNext(c)
  \/ \E r \in Runs : StoreInsertOne(r)

Next ==
  \/ \E s \in SeedRuns : SeedNext(s)
  \/ \E c \in CronRuns : CronNext(c)
  \/ \E r \in Runs : StoreInsertOne(r)

NoScenario == Scenario("none", <<>>, NoCap, {<<>>}, {<<>>}, {<<>>}, TRUE, {}, FALSE)

\* runs launched one after the other
Init == scn \in SeedScenarios /\ Idle /\ NoRetry /\ NoChat /\ NoFilter /\ NoRate

\* runs that overlap
InitRace == scn \in RaceScenarios /\ Idle /\ NoRetry /\ NoChat /\ NoFilter /\ NoRate

\* withRetry alone, on every operation and maxAttempts within the bounds
InitRetryOnly == InitRetry /\ scn = NoScenario /\ Idle /\ NoChat /\ NoFilter /\ NoRate

NextRetry == RetryCall /\ UNCHANGED <<pipelineVars, chatVars, filterVars, rateVars>>

Spec == Init /\ [][Next]_vars

SpecRace == InitRace /\ [][NextRace]_vars

SpecRetry == InitRetryOnly /\ [][NextRetry]_vars

\* every scenario, sequential or overlapping
InitAll == scn \in SeedScenarios \cup RaceScenarios /\ Idle /\ NoRetry /\ NoChat /\ NoFilter /\ NoRate

SpecAll == InitAll /\ [][Next]_vars

\* seed against a database that may already hold the collection
InitSetup == scn \in SetupScenarios /\ Idle /\ NoRetry /\ NoChat /\ NoFilter /\ NoRate

NextSetup ==
  \/ \E s \in SeedRuns : SeedPageNext(s)
  \/ \E s \in SeedRuns : LoadDbStart(s)
  \/ \E r \in Runs : StoreInsertOne(r)

SpecSetup == InitSetup /\ [][NextSetup]_vars

\* sequential runs that keep going: the event loop resumes every awaited call,
\* and every external call returns or times out
InitLive ==
  /\ scn \in {sc \in SeedScenarios : sc.name \in {"crawl", "capped", "cron"}}
  /\ Idle /\ NoRetry /\ NoChat /\ NoFilter /\ NoRate

SpecLive == InitLive /\ [][Next]_vars /\ WF_vars(Next)

\* incremental runs alone, one after the other
InitCron == scn \in CronScenarios /\ Idle /\ NoRetry /\ NoChat /\ NoFilter /\ NoRate

NextCron ==
  \/ \E c \in CronRuns : CronNext(c)
  \/ \E r \in Runs : StoreInsertOne(r)

SpecCron == InitCron /\ [][NextCron]_vars

\* the seed script run twice over the same two pages
InitPages ==
  /\ scn \in {sc \in SeedScenarios : sc.name = "twice"}
  /\ Idle /\ NoRetry /\ NoChat /\ NoFilter /\ NoRate

NextPages ==
  \/ \E s \in SeedRuns : SeedPageNext(s)
  \/ \E r \in Runs : StoreInsertOne(r)

SpecPages == InitPages /\ [][NextPages]_vars

\* isLowValueContent alone, on texts around its thresholds
InitFilterOnly == InitFilter /\ scn = NoScenario /\ Idle /\ NoRetry /\ NoChat /\ NoRate

NextFilter == FilterCall /\ UNCHANGED <<pipelineVars, retryVars, chatVars, rateVars>>

SpecFilter == InitFilterOnly /\ [][NextFilter]_vars

\* the template with the retrieved context, the chat completion and the
\* response
ChatCompletion ==
  /\ chatOut.pc = "template"
  /\ LET run == [ChatStep(chatOut, "completion") EXCEPT !.template = chatOut.docContent]
     IN \E fails \in BOOLEAN :
          chatOut' =
            IF fails THEN ChatFailed([run EXCEPT !.completion = "threw"])
            ELSE [run EXCEPT !.pc = "responded", !.completion = "returned",
                             !.response = [status |-> 200, body |-> "message"]]
  /\ UNCHANGED chatIn

\* one chat request, from the query embedding to the response
InitRate == scn = NoScenario /\ Idle /\ NoRetry /\ NoChat /\ NoFilter /\ NoRate

NextRate == Post /\ UNCHANGED <<pipelineVars, retryVars, chatVars, filterVars>>

SpecRate == InitRate /\ [][NextRate]_vars

InitChat ==
  /\ chatIn \in ChatInputs
  /\ chatOut = ChatIdle
  /\ scn = NoScenario /\ Idle /\ NoRetry /\ NoFilter /\ NoRate

NextChat ==
  /\ ChatEmbed \/ ChatSearch \/ ChatParents \/ ChatContext \/ ChatCompletion
  /\ UNCHANGED <<pipelineVars, retryVars, filterVars, rateVars>>

SpecChat == InitChat /\ [][NextChat]_vars

-----------------------------------------------------------------------------
(* Properties of withRetry *)

AlwaysFails(fn, attempts) == \A k \in 1..attempts : ~fn[k].ok

\* C1: when the wrapped call fails on every attempt, withRetry invokes it
\* exactly `attempts` times, sleeps exactly attempts - 1 times between the
\* invocations (never after the last), and throws the error of the last one.
C1_RetryExhausted ==
  (retryOut.pc = "returned" /\ AlwaysFails(retryIn.fn, retryIn.attempts)) =>
     /\ retryOut.res.threw
     /\ retryOut.res.calls = retryIn.attempts
     /\ Len(retryOut.res.sleeps) = retryIn.attempts - 1
     /\ retryOut.res.val = retryIn.fn[retryIn.attempts].val

\* three failing attempts whose last error differs from the earlier ones
C1_Witness ==
  /\ retryOut.pc = "returned"
  /\ retryIn.attempts = RETRY_ATTEMPTS
  /\ AlwaysFails(retryIn.fn, retryIn.attempts)
  /\ retryIn.fn[1].val # retryIn.fn[RETRY_ATTEMPTS].val
  /\ retryOut.res.threw

-----------------------------------------------------------------------------
(* Properties of the ingestion runs *)

\* the documents a run put into the store
StampedBy(r) == {d \in store : d.scrapedAt[1] = r}

\* the documents of one queue entry of a run
StampedAt(r, at) == {d \in store : d.scrapedAt = <<r, at>>}

Ids(docs) == {d._id : d \in docs}

NoIdTwice == Cardinality(Ids(store)) = Cardinality(store)

IsInsert(e) == e.op \in {"parents", "children"}

EmbedThrew(e) == e.op = "embed" /\ e.ev = "threw"

InsertThrew(e) == IsInsert(e) /\ e.ev = "error"

\* this step, an insertMany of run s ends with the duplicate error
DuplicateReturn(s) ==
  /\ seed[s].pc \in {"parentsWait", "childrenWait"}
  /\ Len(seed'[s].log) > Len(seed[s].log)
  /\ seed'[s].log[Len(seed[s].log) + 1].ev = "duplicate"

\* the documents of the batch in flight that the store took
NewlyInserted(s) ==
  Cardinality({k \in 1..Len(inflight[s].docs) : inflight[s].docs[k] \in store})

\* after this step the remaining insert batches of the URL go on
StillIssued(s) ==
  LET run == seed[s]
      items == IF run.pc = "parentsWait" THEN run.parentDocs ELSE run.childTexts
  IN IF run.b + INSERT_BATCH < Len(items)
     THEN /\ seed'[s].pc = (IF run.pc = "parentsWait" THEN "parents" ELSE "children")
          /\ seed'[s].b = run.b + INSERT_BATCH
          /\ seed'[s].i = run.i
     ELSE IF run.pc = "parentsWait"
          THEN seed'[s].pc = "children" /\ seed'[s].b = 0 /\ seed'[s].i = run.i
          ELSE /\ seed'[s].processedUrls = run.processedUrls + 1
               /\ seed'[s].processedUrlList = Append(run.processedUrlList, Entry(run).url)

\* C2: when an insertMany batch of loadSampleData fails with a duplicate
\* ("already exists" / "duplicate") error, recordsAdded grows by exactly the
\* number of documents of the batch that were newly inserted, the URL is not
\* counted as failed, and the remaining insert batches of the URL go on.
C2_DuplicateTolerated ==
  [][\A s \in SeedRuns :
       DuplicateReturn(s) =>
         /\ seed'[s].recordsAdded = seed[s].recordsAdded + NewlyInserted(s)
         /\ seed'[s].failedUrls = seed[s].failedUrls
         /\ StillIssued(s)]_vars

\* a parent batch took some documents and refused others, and the next parent
\* batch of the same URL is in flight
C2_Witness ==
  \E s \in SeedRuns :
    /\ seed[s].pc = "parentsWait"
    /\ seed[s].b = INSERT_BATCH
    /\ StampedAt(s, seed[s].i) # {}
    /\ \E j \in DOMAIN seed[s].log :
         /\ seed[s].log[j].at = seed[s].i
         /\ seed[s].log[j].op = "parents"
         /\ seed[s].log[j].ev = "duplicate"

\* C3: running loadSampleData a second time over the same URLs, with the same
\* scraped text and no failures, leaves the store with the ids of the first
\* run: the second run adds nothing and no id is stored twice.
C3_SecondRunAddsNothing ==
  (/\ seed["s1"].pc = "returned" /\ seed["s2"].pc = "returned"
   /\ seed["s1"].queue = seed["s2"].queue
   /\ faults = 0) =>
     /\ seed["s2"].recordsAdded = 0
     /\ Ids(store) = Ids(StampedBy("s1"))
     /\ seed["s1"].recordsAdded = Cardinality(store)
     /\ NoIdTwice

\* both runs went through both pages, the second one meeting duplicates only
C3_Witness ==
  /\ seed["s1"].pc = "returned" /\ seed["s2"].pc = "returned"
  /\ seed["s1"].queue = seed["s2"].queue
  /\ faults = 0
  /\ seed["s1"].recordsAdded > 0
  /\ seed["s2"].processedUrls = 2
  /\ \E j \in DOMAIN seed["s2"].log : seed["s2"].log[j].ev = "duplicate"

RaceOver == scn.overlap /\ \A r \in scn.runs : Finished(r)

\* C4: when two runs over the same content interleave their insert batches,
\* no id is stored twice, every stored document is counted in recordsAdded of
\* exactly the run that inserted it (the counts sum to the number of stored
\* documents), and no run counts the URL as failed.
C4_RacingRuns ==
  (RaceOver /\ faults = 0) =>
     /\ NoIdTwice
     /\ \A s \in scn.runs \cap SeedRuns :
          /\ seed[s].pc = "returned"
          /\ seed[s].recordsAdded = Cardinality(StampedBy(s))
          /\ seed[s].failedUrls = 0
     /\ \A c \in scn.runs \cap CronRuns : cron[c].errors = <<>>
     /\ scn.runs = SeedRuns =>
          /\ seed["s1"].recordsAdded + seed["s2"].recordsAdded = Cardinality(store)
          /\ store # {}

\* both seed runs are over and each of them won a part of the documents
C4_Witness ==
  /\ RaceOver /\ faults = 0
  /\ scn.runs = SeedRuns
  /\ seed["s1"].recordsAdded > 0
  /\ seed["s2"].recordsAdded > 0
  /\ seed["s1"].processedUrls = 1 /\ seed["s2"].processedUrls = 1

\* C5: when an embedding batch of a URL fails on all retry attempts, no
\* parent or child document of that URL is inserted in that pass (no insert
\* is even issued), and the URL is counted exactly once in failedUrls.
C5_EmbedFailureInsertsNothing ==
  \A s \in SeedRuns :
    LET log == seed[s].log IN
    /\ \A j \in DOMAIN log :
         EmbedThrew(log[j]) =>
           /\ StampedAt(s, log[j].at) = {}
           /\ \A k \in DOMAIN log : log[k].at = log[j].at => ~IsInsert(log[k])
    /\ seed[s].failedUrls =
         Cardinality({j \in DOMAIN log : EmbedThrew(log[j]) \/ InsertThrew(log[j])})

\* the second embedding batch of a URL failed after the first one succeeded
C5_Witness ==
  \E s \in SeedRuns :
    /\ seed[s].failedUrls = 1
    /\ \E j \in DOMAIN seed[s].log :
         EmbedThrew(seed[s].log[j]) /\ seed[s].log[j].arg = EMBED_BATCH

-----------------------------------------------------------------------------
(* Properties of the store and of the order of the inserts *)

IsChild(d) == d.type = "child"

IsParent(d) == d.type = "parent"

\* C6: starting from an empty store, after any sequence of seed and incremental
\* runs, sequential or overlapping, with embedding and insert failures, every
\* child document has a parentId equal to the _id of a parent document that is
\* present in the store.
C6_ChildHasParent ==
  \A d \in store :
    IsChild(d) => \E q \in store : IsParent(q) /\ q._id = d.parentId

\* children of a seed run and of an incremental run are stored, after a failure
C6_Witness ==
  /\ faults > 0
  /\ \E d \in store : IsChild(d) /\ d.scrapedAt[1] \in SeedRuns
  /\ \E d \in store : IsChild(d) /\ d.scrapedAt[1] \in CronRuns

LogOf(r) == IF r \in SeedRuns THEN seed[r].log ELSE cron[r].log

\* the queue entry, or article, a run is at
At(r) == IF r \in SeedRuns THEN seed[r].i ELSE <<cron[r].feed, cron[r].a>>

InChildStage(r) ==
  IF r \in SeedRuns THEN seed[r].pc \in {"children", "childrenWait"}
  ELSE cron[r].pc \in {"children", "childrenWait"}

\* the parent insert calls the code makes for the entry at hand
ParentBatches(r) ==
  IF r \in SeedRuns
  THEN (Len(seed[r].parentDocs) + INSERT_BATCH - 1) \div INSERT_BATCH
  ELSE 1

ParentEvents(r, evs) ==
  {j \in DOMAIN LogOf(r) :
     /\ LogOf(r)[j].at = At(r)
     /\ LogOf(r)[j].op = "parents"
     /\ LogOf(r)[j].ev \in evs}

\* C7: for each URL, in seed ingestion and in the incremental update, every
\* parent insert batch has been issued and has returned before the first child
\* insert batch of that URL is issued.
C7_ParentsBeforeChildren ==
  \A r \in Runs :
    /\ \A j, k \in DOMAIN LogOf(r) :
         (j < k /\ LogOf(r)[j].at = LogOf(r)[k].at /\ LogOf(r)[j].op = "children")
           => LogOf(r)[k].op # "parents"
    /\ InChildStage(r) =>
         /\ Cardinality(ParentEvents(r, {"issued"})) = ParentBatches(r)
         /\ Cardinality(ParentEvents(r, {"ok", "duplicate"})) = ParentBatches(r)

\* a URL with two parent batches has a later child batch in flight
C7_Witness ==
  \E s \in SeedRuns :
    /\ seed[s].pc = "childrenWait"
    /\ seed[s].b >= INSERT_BATCH
    /\ ParentBatches(s) = 2
    /\ Cardinality(ParentEvents(s, {"ok", "duplicate"})) = 2

\* this step, an insertMany of run s ends with an error that is no duplicate
FatalReturn(s) ==
  /\ seed[s].pc \in {"parentsWait", "childrenWait"}
  /\ Len(seed'[s].log) > Len(seed[s].log)
  /\ seed'[s].log[Len(seed[s].log) + 1].ev = "error"

\* C8: when an insert batch of loadSampleData fails with an error that is not a
\* duplicate error, no further insert batch of that URL is attempted,
\* failedUrls grows by one, and the URL is added neither to processedUrls nor
\* to processedUrlList.
C8_FatalInsertAbortsUrl ==
  /\ [](\A s \in SeedRuns : \A j, k \in DOMAIN seed[s].log :
          (j < k /\ InsertThrew(seed[s].log[j])
                 /\ seed[s].log[k].at = seed[s].log[j].at)
            => ~IsInsert(seed[s].log[k]))
  /\ [][\A s \in SeedRuns :
          FatalReturn(s) =>
            /\ seed'[s].failedUrls = seed[s].failedUrls + 1
            /\ seed'[s].processedUrls = seed[s].processedUrls
            /\ seed'[s].processedUrlList = seed[s].processedUrlList
            /\ seed'[s].i = seed[s].i + 1
            /\ seed'[s].pc = "loop"]_vars

\* the first parent batch of a URL with more batches failed, and the run is over
C8_Witness ==
  \E s \in SeedRuns :
    /\ seed[s].pc = "returned"
    /\ seed[s].failedUrls = 1
    /\ \E j \in DOMAIN seed[s].log :
         /\ InsertThrew(seed[s].log[j])
         /\ seed[s].log[j].op = "parents" /\ seed[s].log[j].arg = 0
         /\ seed[s].log[j].url = "big"

\* C9: within one run, no URL is scraped and ingested more than once, whether
\* it came from the seed list or was discovered through a feed or hub.
C9_NoUrlIngestedTwice ==
  \A s \in SeedRuns : \A j, k \in DOMAIN seed[s].processedUrlList :
    j < k => seed[s].processedUrlList[j] # seed[s].processedUrlList[k]

\* C10: no error raised while handling a single queue entry (feed fetch or
\* parse, hub extraction, scrape, embedding, insert) terminates
\* loadSampleData.
C10_NoEntryErrorEndsRun ==
  \A s \in SeedRuns : seed[s].pc # "threw"

-----------------------------------------------------------------------------
(* Properties of the run as a whole *)

\* C11: whenever collection setup succeeds (loadSampleData is entered), seed
\* eventually produces the final summary, whatever failures occur for
\* individual sources during the run.
C11_SummaryEventually ==
  \A s \in SeedRuns :
    (seed[s].pc = "loop") ~> (seed[s].pc = "returned" /\ seed[s].summary.printed)

\* an entry that is scraped, not expanded into links
NonExpanding(item) == item.type # "rss" /\ ~isBbcTeamPage(item.url)

\* the non-expanding entries that reached Done, Skipped or Failed
Terminals(s) == seed[s].processedUrls + seed[s].skippedUrls + seed[s].failedUrls

\* C12: with maxUrls = N set and at least N non-expanding entries in the
\* queue, exactly N non-expanding entries reach a terminal state (Done,
\* Skipped or Failed) and no further non-expanding entry is dequeued.
C12_CapBoundsTerminals ==
  \A s \in SeedRuns :
    (/\ scn.maxUrls # NoCap
     /\ Cardinality({k \in DOMAIN seed[s].queue : NonExpanding(seed[s].queue[k])})
          >= scn.maxUrls[1]) =>
       /\ Terminals(s) <= scn.maxUrls[1]
       /\ seed[s].pc = "returned" => Terminals(s) = scn.maxUrls[1]

\* the queue entry at index k (from 0) was expanded into links
WasExpanded(s, k) ==
  \E j \in DOMAIN seed[s].log :
    /\ seed[s].log[j].at = k
    /\ seed[s].log[j].op \in {"rss", "hub"}
    /\ seed[s].log[j].ev = "ok"

\* C13: once the processed count has reached maxUrls, every feed (rss) or
\* hub-page entry that was already in the queue is still expanded (its links
\* are still extracted) before the run ends.
C13_ExpansionAfterCap ==
  \A s \in SeedRuns :
    (seed[s].pc = "returned" /\ CapReached(seed[s])) =>
       \A k \in DOMAIN seed[s].queue :
         ~NonExpanding(seed[s].queue[k]) => WasExpanded(s, k - 1)

IsPrefix(a, b) == Len(a) <= Len(b) /\ SubSeq(b, 1, Len(a)) = a

\* C14: within a run, queue entries start processing in queue-index order:
\* entries appended by feed or hub expansion are placed at the tail and are
\* handled after all entries that were in the queue before them, with no
\* reordering, and no entry starts before the previous one has reached a
\* terminal state.
C14_QueueOrder ==
  /\ [](\A s \in SeedRuns :
          /\ \A j, k \in DOMAIN seed[s].log :
               j < k => seed[s].log[j].at <= seed[s].log[k].at
          /\ seed[s].pc = "loop" =>
               /\ inflight[s] = NoRequest
               /\ seed[s].parentDocs = <<>> /\ seed[s].childTexts = <<>>)
  /\ [][\A s \in SeedRuns :
          /\ IsPrefix(seed[s].queue, seed'[s].queue)
          /\ \/ seed'[s].i = seed[s].i
             \/ seed'[s].i = seed[s].i + 1 /\ seed'[s].pc = "loop"]_vars

\* an entry appended by an expansion is being ingested, after the seed list
C14_Witness ==
  \E s \in SeedRuns :
    /\ seed[s].i >= Len(scn.footballData)
    /\ seed[s].i < Len(seed[s].queue)
    /\ seed[s].pc = "childrenWait"
    /\ \A k \in 1..Len(scn.footballData) : WasExpanded(s, k - 1) \/
         \E j \in DOMAIN seed[s].log :
           seed[s].log[j].at = k - 1 /\ seed[s].log[j].op \in {"scrape", "sleep"}

\* the last thing run s did was to sleep the delay of queue entry `at`
SleptAfter(run, at, delay) ==
  /\ run.log # <<>>
  /\ run.log[Len(run.log)].op = "sleep"
  /\ run.log[Len(run.log)].at = at
  /\ run.log[Len(run.log)].arg = delay

ScrapeFailed(e) == e.op = "scrape" /\ e.ev = "failed"

\* C16: a page scrape that fails (navigation timeout or error) on every
\* attempt is attempted RETRY_ATTEMPTS times with backoff, after which the URL
\* is counted in failedUrls (source-level failure) rather than treated as a
\* content-level skip.
C16_ScrapeFailureEscalates ==
  \A s \in SeedRuns :
    LET log == seed[s].log IN
    /\ \A j \in DOMAIN log : ScrapeFailed(log[j]) => log[j].arg = RETRY_ATTEMPTS
    /\ seed[s].failedUrls =
         Cardinality({j \in DOMAIN log :
                        ScrapeFailed(log[j]) \/ EmbedThrew(log[j]) \/ InsertThrew(log[j])})

\* run s is at a feed or hub entry
AtExpansion(s) ==
  /\ seed[s].pc = "loop"
  /\ seed[s].i < Len(seed[s].queue)
  /\ ~NonExpanding(Entry(seed[s]))

\* the urls of the entries a step appended to the queue of run s
Appended(s) ==
  {seed'[s].queue[k].url : k \in (Len(seed[s].queue) + 1)..Len(seed'[s].queue)}

\* C17: a feed (rss) entry or a BBC team hub-page entry never causes a content
\* scrape, an embedding call or a store insert, and leaves processedUrls,
\* skippedUrls, failedUrls, recordsAdded and totalEmbeddingTokens unchanged;
\* its only effects are appending entries to the queue and adding URLs to the
\* seen set.
C17_ExpansionFrame ==
  /\ [](\A s \in SeedRuns : \A j \in DOMAIN seed[s].log :
          ~NonExpanding(seed[s].queue[seed[s].log[j].at + 1])
            => seed[s].log[j].op \in {"rss", "hub", "sleep"})
  /\ [][\A s \in SeedRuns :
          (AtExpansion(s) /\ seed'[s] # seed[s]) =>
            /\ seed'[s].processedUrls = seed[s].processedUrls
            /\ seed'[s].processedUrlList = seed[s].processedUrlList
            /\ seed'[s].skippedUrls = seed[s].skippedUrls
            /\ seed'[s].failedUrls = seed[s].failedUrls
            /\ seed'[s].recordsAdded = seed[s].recordsAdded
            /\ seed'[s].totalEmbeddingTokens = seed[s].totalEmbeddingTokens
            /\ store' = store /\ inflight' = inflight
            /\ IsPrefix(seed[s].queue, seed'[s].queue)
            /\ seed[s].seenUrls \subseteq seed'[s].seenUrls
            /\ Appended(s) = seed'[s].seenUrls \ seed[s].seenUrls]_vars

\* a hub and a feed were expanded and their links are in the queue
C17_Witness ==
  \E s \in SeedRuns :
    /\ \E j \in DOMAIN seed[s].log : seed[s].log[j].op = "hub"
    /\ \E j \in DOMAIN seed[s].log :
         seed[s].log[j].op = "rss" /\ seed[s].log[j].ev = "ok"
    /\ Len(seed[s].queue) >= Len(scn.footballData) + 2
    /\ seed[s].seenUrls # {}

-----------------------------------------------------------------------------
(* Properties of createCollection *)

\* the collection exists with a vector dimension other than the configured one
DimensionMismatch(c) == c.exists /\ c.dimension # DEFAULT_VECTOR_DIMENSIONS

\* ALLOW_COLLECTION_RECREATE holds one of the values that enable
FlagSet == scn.ALLOW_COLLECTION_RECREATE \in {"1", "true", "yes", "y", "on"}

\* this step, seed of run s calls createCollection
SetupStep(s) == seed[s].pc = "init" /\ seed'[s].pc # "init"

\* C18: when the collection already exists with a vector dimension different
\* from the configured one and the allow-recreate flag is not set,
\* createCollection throws, the existing collection is not dropped, and no
\* queue entry is processed; the collection is dropped and recreated only when
\* the flag is set.
C18_MismatchIsFatal ==
  /\ [](\A s \in SeedRuns :
          seed[s].pc = "aborted" =>
            /\ seed[s].log = <<>> /\ seed[s].i = 0 /\ seed[s].queue = <<>>
            /\ StampedBy(s) = {} /\ inflight[s] = NoRequest)
  /\ [][\A s \in SeedRuns :
          SetupStep(s) =>
            /\ (DimensionMismatch(coll) /\ ~FlagSet) =>
                 /\ seed'[s].pc = "aborted"
                 /\ coll' = coll /\ store' = store
            /\ (coll.exists /\ (coll' # coll \/ store' # store)) =>
                 FlagSet /\ DimensionMismatch(coll)]_vars

-----------------------------------------------------------------------------
(* Properties of the chat route's retrieval *)

\* the parentIds the children of a search answer carry
Referenced(childDocs) ==
  {childDocs[k].parentId : k \in {j \in 1..Len(childDocs) : Truthy(childDocs[j].parentId)}}

\* the place of the first child that names parent p
FirstNaming(childDocs, p) ==
  CHOOSE k \in 1..Len(childDocs) :
    /\ childDocs[k].parentId = p
    /\ \A j \in 1..(k - 1) : childDocs[j].parentId # p

\* retrieval is over and no store query failed
Retrieved == chatOut.pc \in {"template", "responded"} /\ "context" \in Range(chatOut.steps) /\ ~chatOut.threw

\* C19: in the chat route, when the child search returns at least one child
\* and none of the parentIds it references exists in the store, the assembled
\* context is built from the contents of exactly the returned children, in
\* search order, and is not empty.
C19_OrphanFallback ==
  (/\ Retrieved
   /\ Len(chatIn.children) > 0
   /\ Referenced(chatIn.children) \cap chatIn.parents = {}) =>
    /\ chatOut.docContent # <<>>
    /\ Len(chatOut.docContent) = Len(chatIn.children) + 2
    /\ \A k \in 1..Len(chatIn.children) :
         chatOut.docContent[k + 1] = chatIn.children[k].content

\* two orphans of a missing parent and a child without parentId were found,
\* while another parent exists, and the context was assembled
C19_Witness ==
  /\ Retrieved
  /\ Len(chatIn.children) = 3
  /\ Referenced(chatIn.children) = {"p1"}
  /\ \E k \in 1..3 : chatIn.children[k].parentId = Undefined
  /\ chatIn.parents = {"p2", "p3"}
  /\ chatOut.docContent # <<>>

\* C20: in the chat route, the parent ids looked up are the distinct parentIds
\* of the returned children in first-occurrence order, and when at least one
\* of them exists the assembled context consists only of the contents of the
\* parents found, each parent at most once, with no child content.
C20_ParentContext ==
  /\ chatOut.pc \in {"context", "template"} =>
       LET ids == chatOut.parentIds
           docs == chatOut.childDocs IN
       /\ docs \in {<<>>, chatIn.children}
       /\ {ids[k] : k \in 1..Len(ids)} = Referenced(docs)
       /\ \A i, j \in 1..Len(ids) :
            i < j => /\ ids[i] # ids[j]
                     /\ FirstNaming(docs, ids[i]) < FirstNaming(docs, ids[j])
  /\ (Retrieved /\ Referenced(chatIn.children) \cap chatIn.parents # {}) =>
       LET found == Referenced(chatIn.children) \cap chatIn.parents
           body == SubSeq(chatOut.docContent, 2, Len(chatOut.docContent) - 1) IN
       /\ Len(body) = Cardinality(found)
       /\ {body[k] : k \in 1..Len(body)} = {ChatText[p] : p \in found}
       /\ \A k \in 1..Len(body) : \A c \in ChildKeys : body[k] # ChatText[c]

\* three children of two parents, the second parent named first and twice,
\* both parents in the store, and the context was assembled
C20_Witness ==
  /\ Retrieved
  /\ Len(chatIn.children) = 3
  /\ chatIn.children[1].parentId = "p2"
  /\ chatIn.children[2].parentId = "p1"
  /\ chatIn.children[3].parentId = "p2"
  /\ chatIn.parents = {"p1", "p2", "p3"}
  /\ chatOut.parentIds = <<"p2", "p1">>
  /\ Len(chatOut.docContent) = 4

\* the child search was asked
Searched == "search" \in Range(chatOut.steps)

\* C21: in the chat route, when the child search returns zero documents or the
\* store query throws, the assembled context is empty and the request still
\* proceeds to the chat completion and returns an answer rather than an error
\* response (an error response then has no other cause than the completion
\* itself failing).
C21_EmptyContextStillAnswers ==
  (/\ Searched
   /\ chatOut.pc \in {"template", "responded"}
   /\ chatOut.threw \/ Len(chatIn.children) = 0) =>
    /\ chatOut.docContent = <<>>
    /\ chatOut.pc = "responded" =>
         /\ chatOut.steps[Len(chatOut.steps)] = "completion"
         /\ chatOut.template = <<>>
         /\ chatOut.completion = "returned" =>
              chatOut.response = [status |-> 200, body |-> "message"]
         /\ chatOut.response.status # 200 => chatOut.completion = "threw"

\* the parent lookup of a non-empty search threw, and the request was answered
C21_Witness ==
  /\ chatOut.pc = "responded"
  /\ chatOut.threw
  /\ Len(chatOut.childDocs) > 0
  /\ chatOut.steps = <<"embed", "search", "parents", "completion">>
  /\ chatOut.response.status = 200

-----------------------------------------------------------------------------
(* Properties of the incremental run *)

\* C22: the incremental-ingestion entry point performs no feed fetch, scrape,
\* embedding call or store access for a request that does not carry the
\* correct bearer secret, in every configuration of the deployment; such a
\* request gets a 401 response.
C22_NoSecretNoWork ==
  \A c \in CronRuns :
    (cron[c].pc # "init" /\ ~cron[c].authorized) =>
      /\ cron[c].pc = "responded" /\ cron[c].status = 401
      /\ cron[c].log = <<>>
      /\ inflight[c] = NoRequest
      /\ StampedBy(c) = {}

\* run c is at an article whose URL some stored document carries
AtKnownArticle(c) ==
  /\ cron[c].pc = "article"
  /\ cron[c].a < Len(cron[c].articles)
  /\ \E d \in store : d.url = cron[c].articles[cron[c].a + 1]

ArticleErrorStep(c) ==
  /\ cron[c].pc \in {"embed", "parentsWait", "childrenWait"}
  /\ Len(cron'[c].errors) = Len(cron[c].errors) + 1

\* C24: in the incremental run, a non-duplicate error while embedding or
\* writing one article aborts only that article: the remaining articles of the
\* same feed, and the following feeds, are still processed.
C24_ErrorAbortsArticleOnly ==
  [][\A c \in CronRuns :
       (ArticleErrorStep(c) /\ cron[c].a + 1 < Len(cron[c].articles)) =>
         /\ cron'[c].feed = cron[c].feed
         /\ cron'[c].articles = cron[c].articles
         /\ cron'[c].a = cron[c].a + 1
         /\ cron'[c].pc = "article"]_vars

\* the _ids of the child documents the incremental run builds for a URL
ArticleChildIds(url) ==
  LET parents == SelectSeq(SplitParents(PageText(url)), KeepCronParent)
      children == ChildrenOf(parents,
                    [k \in 1..Len(parents) |->
                       SelectSeq(SplitChildren(parents[k]), KeepCronChild)], 1)
  IN {ChildId(children[k].parentId, children[k].text) : k \in 1..Len(children)}

\* run c wrote the parents of url and then failed in a child insert
FailedInChildren(c, url) ==
  \E k \in 1..Len(cron[c].log) :
    /\ cron[c].log[k].url = url
    /\ cron[c].log[k].op = "children"
    /\ cron[c].log[k].ev = "error"

\* run c found url in a feed
MetArticle(c, url) ==
  \E k \in 1..Len(cron[c].log) :
    cron[c].log[k].url = url /\ cron[c].log[k].op \in {"exists", "scrape"}

\* C25: in the incremental pipeline, if ingestion of an article fails after
\* its parent documents were written but before all of its child documents
\* were written, a later failure-free incremental run over the same feed
\* ingests that article again, so that all of its child documents end up in
\* the store.
C25_RerunCompletesArticle ==
  \A url \in {"art1", "art2", "page2"} :
    (/\ FailedInChildren("c1", url)
     /\ faults = 1
     /\ MetArticle("c2", url)
     /\ cron["c2"].pc = "responded") =>
      ArticleChildIds(url) \subseteq Ids(store)

-----------------------------------------------------------------------------
(* Properties of the quality filter *)

\* C26: isLowValueContent(text) returns false (text acceptable) exactly when
\* the normalized text is non-empty and either (a) its length is >= 100 and it
\* contains a digit and a statistics keyword, or (b) its length is >= 800, or
\* (c) its length is in [200, 800) and it matches fewer than 3 boilerplate
\* phrases and has at least 30 distinct words; in particular 199 characters of
\* plain prose are rejected and 800 characters are accepted regardless of
\* boilerplate.
C26_FilterVerdict ==
  filterOut.pc = "returned" =>
    LET t == filterIn IN
    /\ ~filterOut.res <=>
         /\ t.norm > 0
         /\ \/ t.norm >= 100 /\ t.digit /\ t.stats
            \/ t.norm >= 800
            \/ t.norm >= 200 /\ t.norm < 800 /\ t.boiler < 3 /\ t.uniq >= 30
    /\ (t.norm = 199 /\ ~t.digit /\ ~t.stats) => filterOut.res
    /\ t.norm = 800 => ~filterOut.res

\* a statistics line of 100 characters with little vocabulary was accepted
C26_Witness ==
  /\ filterOut.pc = "returned"
  /\ filterIn.norm = 100 /\ filterIn.digit /\ filterIn.stats /\ filterIn.uniq = 29
  /\ ~filterOut.res

\* this step, run s scrapes a page of 100 to 199 normalized characters that
\* holds a digit and a statistics keyword, and the scrape returns its text
ShortStatsScraped(s) ==
  /\ seed[s].pc = "loop"
  /\ Len(seed'[s].log) > Len(seed[s].log)
  /\ LET e == seed'[s].log[Len(seed[s].log) + 1]
         text == PageText(e.url) IN
     /\ e.op = "scrape" /\ e.ev = "ok"
     /\ text.norm >= 100 /\ text.norm <= 199
     /\ text.digit /\ text.stats

\* C27: a scraped document whose normalized length is between 100 and 199
\* characters and which contains a numeric token and a statistics keyword is
\* accepted by the pipeline: it proceeds to chunking and is not counted as
\* skipped for being short or low-value.
C27_ShortStatsAccepted ==
  [][\A s \in SeedRuns :
       ShortStatsScraped(s) =>
         /\ seed'[s].skippedUrls = seed[s].skippedUrls
         /\ seed'[s].pc = "embed"]_vars

-----------------------------------------------------------------------------
(* Properties of the records *)

\* the documents built so far that reached the store or an insert request
Built ==
  store \cup UNION {{inflight[r].docs[k] : k \in 1..Len(inflight[r].docs)} : r \in Runs}

BuiltChildren == {d \in Built : d.type = "child"}

BuiltParents == {d \in Built : d.type = "parent"}

\* C28: parent ids are hash(parentText) and child ids are
\* hash(parentId + "|" + childText): treating the hash as collision-free, two
\* child chunks get the same id only if they have the same parent id and the
\* same text, so identical child text under two different parents yields two
\* distinct child documents, and the same (parent, text) pair yields the same
\* id in every run.
C28_IdsFollowParentAndText ==
  /\ \A p1, p2 \in BuiltParents : p1._id = p2._id <=> p1.content = p2.content
  /\ \A d1, d2 \in BuiltChildren :
       d1._id = d2._id <=> (d1.parentId = d2.parentId /\ d1.content = d2.content)

\* the store holds the same child text under two parents, and a second run
\* has built once more a child the first run had stored
C28_Witness ==
  /\ \E d1, d2 \in {d \in store : d.type = "child"} :
       d1.content = d2.content /\ d1.parentId # d2.parentId
  /\ \E d1 \in store : \E d2 \in BuiltChildren :
       /\ d1._id = d2._id
       /\ d1.scrapedAt[1] = "s1" /\ d2.scrapedAt[1] = "s2"

\* child document d was split from parent document p of the same pass
SplitFrom(d, p) ==
  /\ d.parentId = p._id
  /\ d.url = p.url
  /\ d.scrapedAt = p.scrapedAt
  /\ d.content \in Range(SplitChildren(p.content))

\* C29: every child record built for a URL carries a parentId equal to the
\* _id of a parent record built from the same URL in the same pass, namely the
\* parent chunk from whose text that child was split, including when children
\* span several embed batches and insert batches.
C29_ChildNamesItsParent ==
  \A s \in SeedRuns :
    seed[s].pc = "childrenWait" =>
      \A k \in 1..Len(inflight[s].docs) :
        \E j \in 1..Len(seed[s].parentDocs) :
          SplitFrom(inflight[s].docs[k], seed[s].parentDocs[j])

\* a later insert batch of a page whose children took two embedding calls is
\* out, and its first child is not of the first parent
C29_Witness ==
  \E s \in SeedRuns :
    /\ seed[s].pc = "childrenWait"
    /\ seed[s].b >= 2 * INSERT_BATCH
    /\ Len(seed[s].childTexts) > EMBED_BATCH
    /\ inflight[s].docs[1].parentId # seed[s].parentDocs[1]._id

\* the page passes the checks on the whole document, and none of its parent
\* chunks has 120 characters and passes the quality filter
NoParentSurvives(text) ==
  /\ text.len >= 200
  /\ ~isLowValueContent(text)
  /\ \A k \in 1..Len(SplitParents(text)) :
       \/ SplitParents(text)[k].len < 120
       \/ isLowValueContent(SplitParents(text)[k])

\* this step, run s scrapes such a page
ScrapedNoParent(s) ==
  /\ seed[s].pc = "loop"
  /\ Len(seed'[s].log) > Len(seed[s].log)
  /\ LET e == seed'[s].log[Len(seed[s].log) + 1] IN
     e.op = "scrape" /\ e.ev = "ok" /\ NoParentSurvives(PageText(e.url))

\* C30: when no parent chunk of a URL survives the length (>= 120 characters)
\* and quality filters, the URL is counted exactly once in skippedUrls,
\* failedUrls is unchanged, no retry is made, and no embedding call or store
\* insert is issued for it.
C30_NoParentIsOneSkip ==
  [][\A s \in SeedRuns :
       ScrapedNoParent(s) =>
         /\ seed'[s].skippedUrls = seed[s].skippedUrls + 1
         /\ seed'[s].failedUrls = seed[s].failedUrls
         /\ seed'[s].processedUrls = seed[s].processedUrls
         /\ seed'[s].totalEmbeddingTokens = seed[s].totalEmbeddingTokens
         /\ seed'[s].i = seed[s].i + 1
         /\ seed'[s].pc = "loop"
         /\ seed'[s].queue = seed[s].queue
         /\ Len(seed'[s].log) = Len(seed[s].log) + 2
         /\ seed'[s].log[Len(seed[s].log) + 1].arg = 1
         /\ seed'[s].log[Len(seed[s].log) + 2].op = "sleep"
         /\ inflight' = inflight
         /\ store' = store
         /\ faults' = faults]_vars

\* a page whose chunks were all filtered out was skipped, and the run went on
\* to ingest the next page
C30_Witness ==
  \E s \in SeedRuns :
    /\ \E k \in 1..Len(seed[s].log) :
         /\ seed[s].log[k].op = "scrape" /\ seed[s].log[k].ev = "ok"
         /\ NoParentSurvives(PageText(seed[s].log[k].url))
         /\ seed[s].i > seed[s].log[k].at
    /\ seed[s].skippedUrls = 1
    /\ seed[s].failedUrls = 0
    /\ seed[s].processedUrls = 2

-----------------------------------------------------------------------------
(* Properties of withRetry: backoff and first success *)

RECURSIVE Sum(_)
Sum(q) == IF q = <<>> THEN 0 ELSE q[1] + Sum(Tail(q))

\* the number of failed attempts before the call returned or gave up
FailedAttempts ==
  IF retryOut.res.threw THEN retryOut.res.calls ELSE retryOut.res.calls - 1

\* C31: in withRetry, the delay slept after the k-th failed attempt (before
\* attempt k+1, for 1 <= k < maxAttempts) is RETRY_BASE_DELAY_MS * 2^(k-1), and
\* no delay is slept after the final failed attempt, so an always-failing
\* operation with maxAttempts = 3 accumulates a total delay of
\* baseDelay * (1 + 2).
C31_BackoffDoubles ==
  retryOut.pc = "returned" =>
    LET sleeps == retryOut.res.sleeps IN
    /\ Len(sleeps) = Min(FailedAttempts, retryIn.attempts - 1)
    /\ \A k \in 1..Len(sleeps) :
         /\ ~retryIn.fn[k].ok
         /\ sleeps[k] = RETRY_BASE_DELAY_MS * 2 ^ (k - 1)
    /\ (AlwaysFails(retryIn.fn, retryIn.attempts) /\ retryIn.attempts = 3) =>
         Sum(sleeps) = RETRY_BASE_DELAY_MS * (1 + 2)

\* four failing attempts: 1 s, 2 s and 4 s were slept, and nothing after the
\* last
C31_Witness ==
  /\ retryOut.pc = "returned"
  /\ retryIn.attempts = 4
  /\ retryOut.res.threw
  /\ retryOut.res.sleeps = <<1000, 2000, 4000>>

\* the operation first succeeds on attempt k
FirstSuccess(fn, k) == fn[k].ok /\ \A j \in 1..(k - 1) : ~fn[j].ok

\* C40: if the wrapped operation first succeeds on attempt k <= maxAttempts,
\* withRetry invokes it exactly k times, sleeps exactly k-1 times, and returns
\* that attempt's result without any further invocation.
C40_FirstSuccessReturns ==
  retryOut.pc = "returned" =>
    \A k \in 1..retryIn.attempts :
      FirstSuccess(retryIn.fn, k) =>
        /\ ~retryOut.res.threw
        /\ retryOut.res.calls = k
        /\ Len(retryOut.res.sleeps) = k - 1
        /\ retryOut.res.val = retryIn.fn[k].val

\* the second attempt succeeded, and the third would have given another result
C40_Witness ==
  /\ retryOut.pc = "returned"
  /\ retryIn.attempts = 3
  /\ FirstSuccess(retryIn.fn, 2)
  /\ retryIn.fn[3].ok /\ retryIn.fn[3].val # retryIn.fn[2].val
  /\ retryOut.res.calls = 2

-----------------------------------------------------------------------------
(* Properties of the queue and of the counters *)

\* the entries of the queue of run s that were discovered, not seeded
Discovered(s) ==
  SubSeq(seed[s].queue, Len(scn.footballData) + 1, Len(seed[s].queue))

\* C32: across one run, each discovered link URL is appended to the queue at
\* most once, no matter how many feeds or hub pages list it, and the seen-URL
\* set only grows (no URL is ever removed from it).
C32_LinksQueuedOnce ==
  /\ [](\A s \in SeedRuns :
          seed[s].pc \in {"loop", "embed", "parents", "parentsWait", "children",
                          "childrenWait"} =>
            /\ \A j, k \in 1..Len(Discovered(s)) :
                 Discovered(s)[j].url = Discovered(s)[k].url => j = k
            /\ seed[s].seenUrls = {Discovered(s)[k].url : k \in 1..Len(Discovered(s))})
  /\ [][\A s \in SeedRuns :
          seed[s].pc # "init" => seed[s].seenUrls \subseteq seed'[s].seenUrls]_vars

\* the hub and both feeds were expanded: four links are queued, two of which
\* were listed twice
C32_Witness ==
  \E s \in SeedRuns :
    /\ scn.name = "crawl"
    /\ seed[s].seenUrls = {"page2", "art1", "art2", "thin"}
    /\ Len(Discovered(s)) = 4
    /\ \E k \in 1..Len(seed[s].log) :
         seed[s].log[k].url = "feed2" /\ seed[s].log[k].ev = "ok"

\* the child batch of run s that is in flight at the store
ChildrenInFlight(s) ==
  IF seed[s].pc = "childrenWait" THEN inflight[s].docs ELSE <<>>

\* C33: with an embedding service that returns one vector per input in input
\* order, every child document handed to the store carries the vector of its
\* own enriched text, "[Source: <source>]" and the child text, and the
\* parentId recorded for that text: the pairing by index survives embed
\* batches of EMBED_BATCH and insert batches of INSERT_BATCH, and no child goes
\* without a vector.
C33_ChildCarriesOwnVector ==
  \A s \in SeedRuns :
    LET run == seed[s]
        docs == ChildrenInFlight(s)
    IN
    /\ run.pc = "childrenWait" =>
         Len(docs) = Min(INSERT_BATCH, Len(run.childTexts) - run.b)
    /\ \A idx \in 1..Len(docs) :
         /\ run.b + idx \in DOMAIN run.allVectors
         /\ docs[idx].content = run.childTexts[run.b + idx]
         /\ docs[idx].parentId = run.childMeta[run.b + idx].parentId
         /\ docs[idx].vector =
              Embedding(Enrich(Entry(run).source, run.childTexts[run.b + idx]))

\* the last child of a URL with more than EMBED_BATCH children is in flight,
\* in an insert batch that is not the first
C33_Witness ==
  \E s \in SeedRuns :
    /\ Len(seed[s].childTexts) > EMBED_BATCH
    /\ seed[s].b > EMBED_BATCH - INSERT_BATCH
    /\ seed[s].b + Len(ChildrenInFlight(s)) = Len(seed[s].childTexts)
    /\ Len(ChildrenInFlight(s)) > 0

PlainEntries(run, n) ==
  {k \in 1..n : run.queue[k].type # "rss" /\ ~isBbcTeamPage(run.queue[k].url)}

Counted(run) == run.processedUrls + run.skippedUrls + run.failedUrls

\* C35: between two queue entries of a run, processedUrls + skippedUrls +
\* failedUrls is the number of entries handled so far that were neither feeds
\* nor hub pages, each such entry has incremented exactly one of the three
\* counters, and processedUrlList has exactly processedUrls elements.
C35_CountersPartitionEntries ==
  /\ [](\A s \in SeedRuns :
          seed[s].pc = "loop" =>
            /\ Counted(seed[s]) = Cardinality(PlainEntries(seed[s], seed[s].i))
            /\ Len(seed[s].processedUrlList) = seed[s].processedUrls)
  /\ [][\A s \in SeedRuns :
          seed[s].pc # "init" /\ seed'[s].pc = "loop" =>
            /\ seed'[s].processedUrls >= seed[s].processedUrls
            /\ seed'[s].skippedUrls >= seed[s].skippedUrls
            /\ seed'[s].failedUrls >= seed[s].failedUrls
            /\ Counted(seed'[s]) - Counted(seed[s]) =
                 IF seed'[s].i = seed[s].i + 1 /\ seed'[s].i \in PlainEntries(seed'[s], seed'[s].i)
                 THEN 1 ELSE 0]_vars

\* every counter has moved, and a feed and a hub page were passed
C35_Witness ==
  \E s \in SeedRuns :
    /\ seed[s].pc = "loop"
    /\ seed[s].processedUrls >= 1 /\ seed[s].skippedUrls >= 1 /\ seed[s].failedUrls >= 1
    /\ \E k \in 1..seed[s].i : seed[s].queue[k].type = "rss"
    /\ \E k \in 1..seed[s].i : isBbcTeamPage(seed[s].queue[k].url)

\* C36: at the end of a run, recordsAdded equals the number of documents that
\* this run's insert calls actually added to the store, including documents of
\* URLs that later failed midway and excluding every document that was already
\* present.
C36_RecordsAddedIsExact ==
  \A s \in SeedRuns :
    seed[s].pc = "returned" => seed[s].recordsAdded = Cardinality(StampedBy(s))

\* the text passes the checks of loadSampleData on the scraped content, some
\* parent chunk of it survives, and no child chunk of a surviving parent does
SeedChildless(text) ==
  LET parents == SplitParents(text) IN
  /\ text.len >= 200
  /\ ~isLowValueContent(text)
  /\ \E p \in 1..Len(parents) : KeepParent(parents[p])
  /\ \A p \in 1..Len(parents) :
       KeepParent(parents[p]) =>
         \A c \in 1..Len(SplitChildren(parents[p])) :
           ~KeepChild(SplitChildren(parents[p])[c])

\* the same for an article of the scheduled update
CronChildless(text) ==
  LET parents == SplitParents(text) IN
  /\ text.len >= 200
  /\ \E p \in 1..Len(parents) : KeepCronParent(parents[p])
  /\ \A p \in 1..Len(parents) :
       KeepCronParent(parents[p]) =>
         \A c \in 1..Len(SplitChildren(parents[p])) :
           ~KeepCronChild(SplitChildren(parents[p])[c])

\* the operations of a run that call the embedding service or the store
Writes == {"embed", "parents", "children"}

\* C37: when the parents of a URL yield no surviving child chunk in total, the
\* URL is counted as skipped and nothing is written for it: no parent
\* document, no child document, and no embedding call, in the seed script and
\* in the scheduled update alike.
C37_ChildlessIsSkipped ==
  /\ [](/\ \A s \in SeedRuns : \A k \in 1..Len(seed[s].log) :
             seed[s].log[k].op \in Writes => ~SeedChildless(PageText(seed[s].log[k].url))
        /\ \A c \in CronRuns : \A k \in 1..Len(cron[c].log) :
             cron[c].log[k].op \in Writes => ~CronChildless(PageText(cron[c].log[k].url))
        /\ \A d \in store :
             /\ d.scrapedAt[1] \in SeedRuns => ~SeedChildless(PageText(d.url))
             /\ d.scrapedAt[1] \in CronRuns => ~CronChildless(PageText(d.url)))
  /\ [][/\ \A s \in SeedRuns :
             (/\ seed[s].pc = "loop"
              /\ seed[s].i < Len(seed[s].queue)
              /\ seed'[s] # seed[s]
              /\ ~CapReached(seed[s])
              /\ Entry(seed[s]).type # "rss"
              /\ SeedChildless(PageText(Entry(seed[s]).url)))
             => /\ seed'[s].pc = "loop"
                /\ seed'[s].i = seed[s].i + 1
                /\ seed'[s].skippedUrls = seed[s].skippedUrls + 1
                /\ seed'[s].processedUrls = seed[s].processedUrls
                /\ seed'[s].failedUrls = seed[s].failedUrls
                /\ seed'[s].recordsAdded = seed[s].recordsAdded
                /\ seed'[s].totalEmbeddingTokens = seed[s].totalEmbeddingTokens
                /\ store' = store
                /\ inflight' = inflight
        /\ \A c \in CronRuns :
             (/\ cron[c].pc = "article"
              /\ cron[c].a < Len(cron[c].articles)
              /\ cron'[c] # cron[c]
              /\ ~\E d \in store : d.url = Article(cron[c])
              /\ CronChildless(PageText(Article(cron[c]))))
             => /\ cron'[c].pc = "article"
                /\ cron'[c].a = cron[c].a + 1
                /\ cron'[c].skipped = cron[c].skipped + 1
                /\ cron'[c].newArticles = cron[c].newArticles
                /\ cron'[c].totalTokens = cron[c].totalTokens
                /\ cron'[c].errors = cron[c].errors
                /\ store' = store
                /\ inflight' = inflight]_vars

\* the seed script and then the scheduled update have met a page whose two
\* child chunks are both under 80 characters, and the text was scraped
C37_Witness ==
  /\ SeedChildless(PageText("brief"))
  /\ CronChildless(PageText("brief"))
  /\ \E s \in SeedRuns : \E k \in 1..Len(seed[s].log) :
       /\ seed[s].log[k].url = "brief" /\ seed[s].log[k].op = "scrape"
       /\ seed[s].log[k].ev = "ok"
       /\ seed[s].skippedUrls >= 1
  /\ \E c \in CronRuns : \E k \in 1..Len(cron[c].log) :
       /\ cron[c].log[k].url = "brief" /\ cron[c].log[k].op = "scrape"
       /\ cron[c].skipped >= 2
       /\ faults = 0

-----------------------------------------------------------------------------
(* Properties of the rate limiter of the chat route *)

\* the allowed requests of a key whose time lies between two instants
AllowedWithin(key, from, to) ==
  {k \in 1..Len(served) :
     /\ served[k].key = key
     /\ served[k].allowed
     /\ from <= served[k].at
     /\ served[k].at <= to}

\* the request that was answered last
LastServed == served[Len(served)]

\* C38 as stated: for every client key, every time interval of length
\* RATE_LIMIT_WINDOW_MS holds at most MAX_REQUESTS_PER_WINDOW allowed requests
\* of the key, the interval's two ends included.
C38_AtMostMaxInAnyWindow ==
  \A key \in ClientKeys : \A j \in 1..Len(served) :
    Cardinality(AllowedWithin(key, served[j].at, served[j].at + RATE_LIMIT_WINDOW_MS))
      <= MAX_REQUESTS_PER_WINDOW

\* C38, amended: for every client key, every time interval that is shorter
\* than RATE_LIMIT_WINDOW_MS by a millisecond or more, its ends included, holds
\* at most MAX_REQUESTS_PER_WINDOW allowed requests of the key, after any
\* sequence of requests from any keys; a request leaves the bucket of every
\* other key as it was, and its verdict follows from the allowed requests of
\* its own key alone.
C38_AtMostMaxInOpenWindow ==
  /\ [](\A key \in ClientKeys : \A j \in 1..Len(served) :
          Cardinality(AllowedWithin(key, served[j].at,
                                    served[j].at + RATE_LIMIT_WINDOW_MS - 1))
            <= MAX_REQUESTS_PER_WINDOW)
  /\ [][Len(served') = Len(served) + 1 =>
          LET key == served'[Len(served')].key
              now == served'[Len(served')].at
          IN /\ \A other \in ClientKeys \ {key} :
                  requestBuckets'[other] = requestBuckets[other]
             /\ served'[Len(served')].allowed <=>
                  Cardinality(AllowedWithin(key, now - RATE_LIMIT_WINDOW_MS + 1, now))
                    < MAX_REQUESTS_PER_WINDOW]_vars

\* a key that filled its window and was denied is allowed again exactly
\* RATE_LIMIT_WINDOW_MS after its first request, with a request of another
\* key in between
C38_Witness ==
  /\ Len(served) >= 2
  /\ \E d \in 1..Len(served) : ~served[d].allowed /\ served[d].key = LastServed.key
  /\ \E o \in 1..Len(served) : served[o].key # LastServed.key
  /\ LastServed.allowed
  /\ Cardinality(AllowedWithin(LastServed.key, LastServed.at - RATE_LIMIT_WINDOW_MS,
                               LastServed.at)) = MAX_REQUESTS_PER_WINDOW + 1

\* the requests of a key that were denied between two instants
DeniedWithin(key, from, to) ==
  {k \in 1..Len(served) :
     /\ served[k].key = key
     /\ ~served[k].allowed
     /\ from <= served[k].at
     /\ served[k].at <= to}

\* C39: a denied request adds no timestamp to the client's bucket, so denied
\* requests never postpone the time at which the client is allowed again: a
\* client with a full bucket is allowed as soon as its oldest recorded allowed
\* request is RATE_LIMIT_WINDOW_MS or more in the past, however many denied
\* requests it sent meanwhile.
C39_DeniedLeavesNoTrace ==
  [][Len(served') = Len(served) + 1 =>
       LET key == served'[Len(served')].key
           now == served'[Len(served')].at
           before == requestBuckets[key]
           after == requestBuckets'[key]
       IN /\ ~served'[Len(served')].allowed =>
               after = SelectSeq(before, LAMBDA ts : now - ts < RATE_LIMIT_WINDOW_MS)
          /\ (/\ Len(before) = MAX_REQUESTS_PER_WINDOW
              /\ now - before[1] >= RATE_LIMIT_WINDOW_MS)
               => served'[Len(served')].allowed
          /\ \A k \in 1..Len(after) :
               \E j \in 1..Len(served') :
                 /\ served'[j].key = key /\ served'[j].allowed /\ served'[j].at = after[k]]_vars

\* a client with a full bucket was denied twice and then allowed, at the
\* millisecond its oldest allowed request became RATE_LIMIT_WINDOW_MS old
C39_Witness ==
  /\ Len(served) >= MAX_REQUESTS_PER_WINDOW + 3
  /\ LastServed.allowed
  /\ Cardinality(DeniedWithin(LastServed.key, LastServed.at - RATE_LIMIT_WINDOW_MS,
                              LastServed.at)) >= 2
  /\ Cardinality(AllowedWithin(LastServed.key, LastServed.at - RATE_LIMIT_WINDOW_MS,
                               LastServed.at - RATE_LIMIT_WINDOW_MS))
       = MAX_REQUESTS_PER_WINDOW

====
